---------------------------- MODULE Spec2Model ----------------------------
(***************************************************************************)
(* Model of the embedding / rollup maintenance pipeline of campus-ai:      *)
(*   - the company embedding runner  (batch/company-embeddings/run)        *)
(*   - the company rollup runner     (batch/company-rollups/run)           *)
(*   - the review submission routes  (course-reviews, company-reviews)     *)
(*   - the full-rebuild driver       (batch/full-rebuild/run)              *)
(* Every `await` on storage or on a provider is one atomic step; runner    *)
(* invocations interleave between steps.                                   *)
(*                                                                         *)
(* Scaling.  The batch ceilings, page sizes and loop ceilings of the       *)
(* source (50, 16, 15, 30, 5000, 500, 10000) are kept as named constants   *)
(* but with small values, so that "more rows than one batch / page / loop  *)
(* budget" happens with three or four rows.  LOCK_STALE_MINUTES keeps its  *)
(* value; the clock counts minutes.                                        *)
(***************************************************************************)
EXTENDS Integers, Sequences, FiniteSets, Bags, TLC

\* ------------------------------------------------------------------ bounds
MaxReviews == 3
MaxNow == 17
MaxRuns == 2
MaxRebuildReviews == 5
MaxStatsReviews == 4
MaxFaultyReviews == 1
MaxLeaseSubmissions == 1
MaxDirtyKeys == 4

\* ------------------------------------------------------- program constants
MAX_JOBS_PER_RUN == 2
EMBEDDING_BATCH_SIZE == 1
LOCK_STALE_MINUTES == 15

NULL == "null"
\* null in a timestamp or review-id column (locked_at: string | null)
NIL == -1
Runners == {"r1", "r2"}
\* company ids in ascending order
CompanyList == <<"cA", "cB", "cC">>
Subjects == {1, 2, 3}
FACULTY == "f1"

VARIABLES
    now,        \* wall clock, minutes
    reviews,    \* company_reviews: id -> [key, outcome, body]
    flags,      \* company_review_ai_flags rows with ai_flagged = true
    jobs,       \* company_embedding_jobs: review_id -> row
    jobOrder,   \* review ids of jobs, oldest updated_at first
    embs,       \* company_review_embeddings: review_id -> content_hash
    emb,        \* per embedding-runner invocation: locals of POST
    runs,       \* runner invocations started so far
    rollups,    \* company_rollups: key -> row
    rollupOrder,\* keys of company_rollups, oldest updated_at first
    rembs,      \* company_rollup_embeddings: key -> [content_hash, embedding]
    rol,        \* per rollup-runner invocation: locals of POST
    nextId,     \* the id the next inserted company review gets
    sub,        \* the review submission in flight: locals of POST
    course,     \* course_reviews, embedding_jobs, subject_rollups
    drv,        \* the full-rebuild invocation: locals of POST
    summarized  \* bag of the review ids sent to the summarization provider

embVars == <<jobs, jobOrder, embs, emb>>
rolVars == <<rollups, rollupOrder, rembs, rol>>
restVars == <<nextId, sub, course, drv, summarized>>
vars == <<now, reviews, flags, jobs, jobOrder, embs, emb, runs,
          rollups, rollupOrder, rembs, rol, nextId, sub, course, drv,
          summarized>>

\* ----------------------------------------------------------------- helpers
RECURSIVE SeqOfSet(_)
\* a set of review ids as a sequence in ascending id order
SeqOfSet(S) ==
    IF S = {} THEN << >>
    ELSE LET m == CHOOSE x \in S : \A y \in S : x <= y
         IN  <<m>> \o SeqOfSet(S \ {m})

Range(s) == {s[i] : i \in 1..Len(s)}

FilterSeq(s, S) == SelectSeq(s, LAMBDA x : x \in S)

Take(s, n) == SubSeq(s, 1, IF Len(s) < n THEN Len(s) ELSE n)

Drop(s, n) == SubSeq(s, (IF Len(s) < n THEN Len(s) ELSE n) + 1, Len(s))

\* rows written with a fresh updated_at move to the young end of the order
Touch(order, S) == FilterSeq(order, Range(order) \ S) \o SeqOfSet(S)

\* createHash('sha256').update(text).digest('hex'): an injective digest
sha256Hex(text) == <<"sha256", text>>


\* the row every enqueue writes
QueuedJob ==
    [status |-> "queued", attempt_count |-> 0, last_error |-> NULL,
     locked_at |-> NIL, locked_by |-> NULL]

\* the body text of a review (reviews are immutable once created)
BodyOf(id) == IF id % 2 = 1 THEN "b1" ELSE "b2"

\* the outcome field of a review
OutcomeOf(id) ==
    IF id % 3 = 1 THEN "offer" ELSE IF id % 3 = 2 THEN "rejected" ELSE "other"

\* course_reviews, course_review_ai_flags, embedding_jobs, subject_rollups
EmptyCourse == [reviews |-> << >>, flags |-> {}, jobs |-> << >>, rollups |-> << >>]

\* insert or overwrite one row of a table held as a function
Upsert(table, key, row) ==
    [x \in DOMAIN table \cup {key} |-> IF x = key THEN row ELSE table[x]]

\* a subject_rollups row that no run has written yet
EmptySubjectRollup ==
    [summary_1000 |-> << >>, review_count |-> 0,
     last_processed_review_id |-> NIL, is_dirty |-> FALSE]

\* the upsert overwriting the whole row with the defaults of a new one
DirtyUpsertReplacesRow(table, key, fresh) ==
    Upsert(table, key, [fresh EXCEPT !.is_dirty = TRUE])

\* upsert({ <key columns>, is_dirty: true }, onConflict <key columns>): on a
\* conflict only the columns of the payload are written, otherwise a new row
\* with the column defaults is inserted
DirtyUpsert(table, key, fresh) ==
    IF key \in DOMAIN table
    THEN [table EXCEPT ![key].is_dirty = TRUE]
    ELSE Upsert(table, key, [fresh EXCEPT !.is_dirty = TRUE])

\* the table without the rows of the given keys
Without(table, keys) == [x \in DOMAIN table \ keys |-> table[x]]

\* ------------------------------------------------- embedding runner (POST)
EmbIdle ==
    [pc |-> "idle", picked |-> << >>, flaggedSet |-> {}, bodyMap |-> << >>,
     toDoneSkip |-> {}, toFailMissingBody |-> {}, need |-> << >>,
     msg |-> NULL, res |-> "none"]

PickedIds(l) == {l.picked[i].review_id : i \in 1..Len(l.picked)}

AttemptOf(l, id) ==
    LET i == CHOOSE k \in 1..Len(l.picked) : l.picked[k].review_id = id
    IN  l.picked[i].attempt_count

\* NextResponse.json(...) of a run: locals are dropped; what the caller can
\* read is "error" (no counts), "empty" (counts.picked = 0) or "ok"
EmbReturn(l, outcome) ==
    [EmbIdle EXCEPT !.res = IF outcome = "ok" /\ Len(l.picked) = 0
                            THEN "empty" ELSE outcome]

\* the pickup predicate of the select query
StaleBefore == now - LOCK_STALE_MINUTES

Eligible(id) ==
    /\ jobs[id].status \in {"queued", "failed"}
    /\ \/ jobs[id].locked_at = NIL
       \/ jobs[id].locked_at < StaleBefore

\* select ... in(status) or(locked_at) order(updated_at) limit(MAX_JOBS_PER_RUN)
SelectJobs ==
    Take(FilterSeq(jobOrder, {id \in DOMAIN jobs : Eligible(id)}), MAX_JOBS_PER_RUN)

\* the conditional update of the claim step
LockMatches(ids) == {id \in ids : jobs[id].status \in {"queued", "failed"}}

EmbSelect(r) ==
    /\ emb[r].pc = "idle"
    /\ LET sel == SelectJobs
           picked == [i \in 1..Len(sel) |->
                        [review_id |-> sel[i],
                         attempt_count |-> jobs[sel[i]].attempt_count]]
       IN  emb' = [emb EXCEPT ![r] =
                     IF Len(sel) = 0
                     THEN EmbReturn(EmbIdle, "ok")
                     ELSE [EmbIdle EXCEPT !.pc = "lock", !.picked = picked]]
    /\ UNCHANGED <<now, reviews, flags, jobs, jobOrder, embs, rolVars, restVars>>

EmbLock(r) ==
    /\ emb[r].pc = "lock"
    /\ LET hit == LockMatches(PickedIds(emb[r]))
       IN  /\ jobs' = [id \in DOMAIN jobs |->
                         IF id \in hit
                         THEN [jobs[id] EXCEPT !.status = "processing",
                                               !.locked_at = now,
                                               !.locked_by = r]
                         ELSE jobs[id]]
           /\ jobOrder' = Touch(jobOrder, hit)
    /\ emb' = [emb EXCEPT ![r].pc = "flags"]
    /\ UNCHANGED <<now, reviews, flags, embs, runs, rolVars, restVars>>

\* where the run goes once the flagged jobs are out of the way
AfterFlagged(l) ==
    IF PickedIds(l) \ l.flaggedSet = {}
    THEN EmbReturn(l, "ok")
    ELSE [l EXCEPT !.pc = "bodies"]

EmbFetchFlags(r) ==
    /\ emb[r].pc = "flags"
    /\ LET l == [emb[r] EXCEPT !.flaggedSet = PickedIds(emb[r]) \cap flags]
       IN  emb' = [emb EXCEPT ![r] =
                     IF l.flaggedSet # {}
                     THEN [l EXCEPT !.pc = "delFlagged"]
                     ELSE AfterFlagged(l)]
    /\ UNCHANGED <<now, reviews, flags, jobs, jobOrder, embs, runs, rolVars, restVars>>

\* a variant that leaves the embeddings of the flagged reviews in place
EmbKeepFlagged(r) ==
    /\ emb[r].pc = "delFlagged"
    /\ emb' = [emb EXCEPT ![r].pc = "doneFlagged"]
    /\ UNCHANGED <<now, reviews, flags, jobs, jobOrder, embs, runs, rolVars, restVars>>

EmbDeleteFlagged(r) ==
    /\ emb[r].pc = "delFlagged"
    /\ embs' = [id \in DOMAIN embs \ emb[r].flaggedSet |-> embs[id]]
    /\ emb' = [emb EXCEPT ![r].pc = "doneFlagged"]
    /\ UNCHANGED <<now, reviews, flags, jobs, jobOrder, runs, rolVars, restVars>>

EmbMarkFlaggedDone(r) ==
    /\ emb[r].pc = "doneFlagged"
    /\ jobs' = [id \in DOMAIN jobs |->
                  IF id \in emb[r].flaggedSet
                  THEN [jobs[id] EXCEPT !.status = "done",
                                        !.last_error = "ai_flagged",
                                        !.locked_at = NIL,
                                        !.locked_by = r]
                  ELSE jobs[id]]
    /\ jobOrder' = Touch(jobOrder, emb[r].flaggedSet \cap DOMAIN jobs)
    /\ emb' = [emb EXCEPT ![r] = AfterFlagged(emb[r])]
    /\ UNCHANGED <<now, reviews, flags, embs, runs, rolVars, restVars>>

ActiveIds(l) == PickedIds(l) \ l.flaggedSet

EmbFetchBodies(r) ==
    /\ emb[r].pc = "bodies"
    /\ emb' = [emb EXCEPT ![r].pc = "hashes",
                          ![r].bodyMap =
                              [id \in ActiveIds(emb[r]) \cap DOMAIN reviews |->
                                  reviews[id].body]]
    /\ UNCHANGED <<now, reviews, flags, jobs, jobOrder, embs, runs, rolVars, restVars>>

\* a variant of the comparison that never finds the stored hash current
HashNeverMatches(existing, body) == FALSE

\* if (existing && existing === h): the stored hash is the body's digest
HashMatches(existing, body) == existing # NULL /\ existing = sha256Hex(body)

\* the first pending block after the partition, or the final response
AfterPartition(l) ==
    IF l.toDoneSkip # {} THEN [l EXCEPT !.pc = "markSkip"]
    ELSE IF l.toFailMissingBody # {} THEN [l EXCEPT !.pc = "markMiss"]
    ELSE IF Len(l.need) > 0 THEN [l EXCEPT !.pc = "embed"]
    ELSE EmbReturn(l, "ok")

EmbFetchHashes(r) ==
    /\ emb[r].pc = "hashes"
    /\ LET l == emb[r]
           hashMap == [id \in ActiveIds(l) \cap DOMAIN embs |-> embs[id]]
           miss == ActiveIds(l) \ DOMAIN l.bodyMap
           skip == {id \in DOMAIN l.bodyMap :
                       /\ id \in DOMAIN hashMap
                       /\ HashMatches(hashMap[id], l.bodyMap[id])}
           order == [i \in 1..Len(l.picked) |-> l.picked[i].review_id]
           need == FilterSeq(order, DOMAIN l.bodyMap \ skip)
       IN  emb' = [emb EXCEPT ![r] =
                     AfterPartition([l EXCEPT !.toDoneSkip = skip,
                                              !.toFailMissingBody = miss,
                                              !.need = need])]
    /\ UNCHANGED <<now, reviews, flags, jobs, jobOrder, embs, runs, rolVars, restVars>>

EmbMarkSkipped(r) ==
    /\ emb[r].pc = "markSkip"
    /\ jobs' = [id \in DOMAIN jobs |->
                  IF id \in emb[r].toDoneSkip
                  THEN [jobs[id] EXCEPT !.status = "done",
                                        !.last_error = NULL,
                                        !.locked_at = NIL,
                                        !.locked_by = r]
                  ELSE jobs[id]]
    /\ jobOrder' = Touch(jobOrder, emb[r].toDoneSkip)
    /\ emb' = [emb EXCEPT ![r] = AfterPartition([emb[r] EXCEPT !.toDoneSkip = {}])]
    /\ UNCHANGED <<now, reviews, flags, embs, runs, rolVars, restVars>>

\* a terminal row that keeps the lease timestamp of the row it replaces
TerminalRowKeepsLease(l, r, id, status, err) ==
    [status |-> status, attempt_count |-> AttemptOf(l, id) + 1,
     last_error |-> err, locked_at |-> jobs[id].locked_at, locked_by |-> r]

\* the row a terminal upsert writes for one job
TerminalRow(l, r, id, status, err) ==
    [status |-> status, attempt_count |-> AttemptOf(l, id) + 1,
     last_error |-> err, locked_at |-> NIL, locked_by |-> r]

EmbMarkMissing(r) ==
    /\ emb[r].pc = "markMiss"
    /\ jobs' = [id \in DOMAIN jobs |->
                  IF id \in emb[r].toFailMissingBody
                  THEN TerminalRow(emb[r], r, id, "failed", "missing body_main")
                  ELSE jobs[id]]
    /\ jobOrder' = Touch(jobOrder, emb[r].toFailMissingBody)
    /\ emb' = [emb EXCEPT ![r] =
                 AfterPartition([emb[r] EXCEPT !.toFailMissingBody = {}])]
    /\ UNCHANGED <<now, reviews, flags, embs, runs, rolVars, restVars>>

\* chunk(need, EMBEDDING_BATCH_SIZE): the batch at the head of what is left
Batch(l) == Range(Take(l.need, EMBEDDING_BATCH_SIZE))

\* a variant of the loop that gives up the remaining batches once a batch
\* has failed
AfterBatchEndsOnFailure(l) ==
    LET m == [l EXCEPT !.need = Drop(l.need, EMBEDDING_BATCH_SIZE), !.msg = NULL]
    IN  IF Len(m.need) > 0 /\ l.pc # "jobsFail"
        THEN [m EXCEPT !.pc = "embed"]
        ELSE EmbReturn(m, "ok")

\* the next turn of the batch loop, or the final response
AfterBatch(l) ==
    LET m == [l EXCEPT !.need = Drop(l.need, EMBEDDING_BATCH_SIZE), !.msg = NULL]
    IN  IF Len(m.need) > 0 THEN [m EXCEPT !.pc = "embed"] ELSE EmbReturn(m, "ok")

EmbCallProvider(r) ==
    /\ emb[r].pc = "embed"
    /\ emb' = [emb EXCEPT ![r].pc = "upsertEmb"]
    /\ UNCHANGED <<now, reviews, flags, jobs, jobOrder, embs, runs, rolVars, restVars>>

\* upsert of company_review_embeddings; review_id references company_reviews
EmbUpsertEmbeddings(r) ==
    /\ emb[r].pc = "upsertEmb"
    /\ IF Batch(emb[r]) \subseteq DOMAIN reviews
       THEN /\ embs' = [id \in DOMAIN embs \cup Batch(emb[r]) |->
                          IF id \in Batch(emb[r])
                          THEN sha256Hex(emb[r].bodyMap[id])
                          ELSE embs[id]]
            /\ emb' = [emb EXCEPT ![r].pc = "jobsDone"]
       ELSE /\ embs' = embs
            /\ emb' = [emb EXCEPT ![r].pc = "jobsFail",
                                  ![r].msg = "foreign key violation"]
    /\ UNCHANGED <<now, reviews, flags, jobs, jobOrder, runs, rolVars, restVars>>

EmbMarkBatchDone(r) ==
    /\ emb[r].pc = "jobsDone"
    /\ jobs' = [id \in DOMAIN jobs |->
                  IF id \in Batch(emb[r])
                  THEN TerminalRow(emb[r], r, id, "done", NULL)
                  ELSE jobs[id]]
    /\ jobOrder' = Touch(jobOrder, Batch(emb[r]))
    /\ emb' = [emb EXCEPT ![r] = AfterBatch(emb[r])]
    /\ UNCHANGED <<now, reviews, flags, embs, runs, rolVars, restVars>>

EmbMarkBatchFailed(r) ==
    /\ emb[r].pc = "jobsFail"
    /\ jobs' = [id \in DOMAIN jobs |->
                  IF id \in Batch(emb[r])
                  THEN TerminalRow(emb[r], r, id, "failed", emb[r].msg)
                  ELSE jobs[id]]
    /\ jobOrder' = Touch(jobOrder, Batch(emb[r]))
    /\ emb' = [emb EXCEPT ![r] = AfterBatch(emb[r])]
    /\ UNCHANGED <<now, reviews, flags, embs, runs, rolVars, restVars>>

\* a storage call outside the batch try block answers with an error: 500
EmbStorageError(r) ==
    /\ emb[r].pc \in {"lock", "flags", "delFlagged", "doneFlagged", "bodies",
                      "hashes", "markSkip", "markMiss", "jobsFail"}
    /\ emb' = [emb EXCEPT ![r] = EmbReturn(emb[r], "error")]
    /\ UNCHANGED <<now, reviews, flags, jobs, jobOrder, embs, runs, rolVars, restVars>>

\* e?.message of what the provider call or a write of the batch throws
ThrownAt(pc) ==
    IF pc = "embed" THEN "provider error"
    ELSE IF pc = "upsertEmb" THEN "embedding upsert error"
    ELSE "job update error"

\* the provider call or a write inside the batch try block throws: catch
EmbBatchThrow(r) ==
    /\ emb[r].pc \in {"embed", "upsertEmb", "jobsDone"}
    /\ emb' = [emb EXCEPT ![r].pc = "jobsFail", ![r].msg = ThrownAt(emb[r].pc)]
    /\ UNCHANGED <<now, reviews, flags, jobs, jobOrder, embs, runs, rolVars, restVars>>

\* the process running the invocation dies between two awaits
EmbCrash(r) ==
    /\ emb[r].pc # "idle"
    /\ emb' = [emb EXCEPT ![r] = [EmbIdle EXCEPT !.res = "crashed"]]
    /\ UNCHANGED <<now, reviews, flags, jobs, jobOrder, embs, runs, rolVars, restVars>>

\* ---------------------------------------------------- rollup runner (POST)
MAX_ROLLUPS_PER_RUN == 2
MAX_REVIEWS_PER_ROLLUP_FOR_STATS == 3
MAX_NEW_REVIEWS_FOR_SUMMARY == 1

\* texts are sequences of characters; " " is the only whitespace
RECURSIVE TrimLeft(_)
TrimLeft(t) == IF Len(t) > 0 /\ t[1] = " " THEN TrimLeft(Tail(t)) ELSE t

RECURSIVE TrimRight(_)
TrimRight(t) ==
    IF Len(t) > 0 /\ t[Len(t)] = " " THEN TrimRight(SubSeq(t, 1, Len(t) - 1)) ELSE t

\* String.prototype.trim
Trim(t) == TrimRight(TrimLeft(t))

RECURSIVE CollapseWs(_)
\* replace(/\s+/g, ' ')
CollapseWs(t) ==
    IF Len(t) = 0 THEN t
    ELSE IF t[1] = " "
         THEN <<" ">> \o CollapseWs(TrimLeft(t))
         ELSE <<t[1]>> \o CollapseWs(Tail(t))

normalizeSummaryForEmbedding(summary) == CollapseWs(Trim(summary))

\* what resp.output_text of the summarization call may be
SummaryOutputs == { << >>, <<" ", "x", " ", " ", "y", " ">> }

EmptyRollup ==
    [summary_1000 |-> << >>, review_count |-> 0, count_offer |-> 0,
     count_rejected |-> 0, count_other |-> 0,
     last_processed_review_id |-> NIL, is_dirty |-> FALSE]

RolIdle ==
    [pc |-> "idle", rollups |-> << >>, idx |-> 0, rows |-> << >>, newIds |-> << >>,
     newBodies |-> << >>, finalSummary |-> << >>, result |-> "none", perRollup |-> << >>,
     res |-> "none"]

NewResult(r) ==
    [key |-> r.key, ok |-> TRUE, stats_updated |-> FALSE,
     summary_updated |-> FALSE, rollup_embedding_updated |-> FALSE,
     kept_dirty |-> FALSE, errors |-> << >>]

\* the rollup the loop body is working on
Cur(l) == l.rollups[l.idx]

TouchOne(order, k) == SelectSeq(order, LAMBDA x : x # k) \o <<k>>

\* select ... eq(is_dirty, true) order(updated_at) limit(MAX_ROLLUPS_PER_RUN)
SelectDirty ==
    Take(SelectSeq(rollupOrder, LAMBDA k : rollups[k].is_dirty), MAX_ROLLUPS_PER_RUN)

RolSelect(r) ==
    /\ rol[r].pc = "idle"
    /\ LET sel == SelectDirty
           q == [i \in 1..Len(sel) |->
                    [key |-> sel[i],
                     summary_1000 |-> rollups[sel[i]].summary_1000,
                     last_processed_review_id |->
                         rollups[sel[i]].last_processed_review_id]]
       IN  rol' = [rol EXCEPT ![r] =
                     IF Len(sel) = 0
                     THEN [RolIdle EXCEPT !.res = "empty"]
                     ELSE [RolIdle EXCEPT !.pc = "reviews", !.rollups = q,
                                          !.idx = 1,
                                          !.result = NewResult(q[1])]]
    /\ UNCHANGED <<now, reviews, flags, embVars, rollups, rollupOrder, rembs,
                   restVars>>

\* a variant of the scan that keeps the flagged reviews
ScanRowsKeepsFlagged(k) ==
    LET ids == SeqOfSet({id \in DOMAIN reviews : reviews[id].key = k})
        scan == Take(ids, MAX_REVIEWS_PER_ROLLUP_FOR_STATS)
    IN  [i \in 1..Len(scan) |-> [id |-> scan[i], outcome |-> reviews[scan[i]].outcome]]

\* company_reviews of the key, created_at ascending, limit, then the flag filter
ScanRows(k) ==
    LET ids == SeqOfSet({id \in DOMAIN reviews : reviews[id].key = k})
        scan == Take(ids, MAX_REVIEWS_PER_ROLLUP_FOR_STATS)
        kept == SelectSeq(scan, LAMBDA id : id \notin flags)
    IN  [i \in 1..Len(kept) |-> [id |-> kept[i], outcome |-> reviews[kept[i]].outcome]]

\* the read of the reviews without the limit
RolReadReviewsUnbounded(r) ==
    /\ rol[r].pc = "reviews"
    /\ LET k == Cur(rol[r]).key
           kept == SeqOfSet({id \in DOMAIN reviews :
                                reviews[id].key = k /\ id \notin flags})
           rows == [i \in 1..Len(kept) |->
                      [id |-> kept[i], outcome |-> reviews[kept[i]].outcome]]
       IN  rol' = [rol EXCEPT ![r].rows = rows,
                              ![r].pc = IF Len(rows) = 0 THEN "reset" ELSE "stats"]
    /\ UNCHANGED <<now, reviews, flags, embVars, runs, rollups, rollupOrder,
                   rembs, restVars>>

\* the bounded read of the reviews of the key and the flag filter
RolReadReviews(r) ==
    /\ rol[r].pc = "reviews"
    /\ LET rows == ScanRows(Cur(rol[r]).key)
       IN  rol' = [rol EXCEPT ![r].rows = rows,
                              ![r].pc = IF Len(rows) = 0 THEN "reset" ELSE "stats"]
    /\ UNCHANGED <<now, reviews, flags, embVars, runs, rollups, rollupOrder,
                   rembs, restVars>>

\* perRollup.push(result) and the loop's next turn, or the response
NextRollup(l, result) ==
    LET done == Append(l.perRollup, result)
    IN  IF l.idx = Len(l.rollups)
        THEN [l EXCEPT !.pc = "respond", !.perRollup = done,
                       !.rows = << >>, !.newIds = << >>, !.newBodies = << >>,
                       !.finalSummary = << >>,
                       !.result = "none"]
        ELSE [l EXCEPT !.pc = "reviews", !.idx = l.idx + 1, !.perRollup = done,
                       !.rows = << >>, !.newIds = << >>, !.newBodies = << >>,
                       !.finalSummary = << >>,
                       !.result = NewResult(l.rollups[l.idx + 1])]

\* update(...).eq(key): changes the row if it exists
UpdateRollup(k, row) ==
    /\ rollups' = IF k \in DOMAIN rollups THEN [rollups EXCEPT ![k] = row] ELSE rollups
    /\ rollupOrder' = IF k \in DOMAIN rollups THEN TouchOne(rollupOrder, k)
                      ELSE rollupOrder

\* a variant of the reset that zeroes the counts and keeps summary and cursor
RolWriteResetKeepsSummary(r) ==
    /\ rol[r].pc = "reset"
    /\ LET k == Cur(rol[r]).key
       IN  /\ UpdateRollup(k, [rollups[k] EXCEPT
                     !.review_count = 0, !.count_offer = 0,
                     !.count_rejected = 0, !.count_other = 0,
                     !.is_dirty = FALSE])
           /\ rol' = [rol EXCEPT ![r] =
                        NextRollup(rol[r], [rol[r].result EXCEPT
                                               !.stats_updated = TRUE,
                                               !.summary_updated = TRUE])]
    /\ UNCHANGED <<now, reviews, flags, embVars, runs, rembs, restVars>>

RolWriteReset(r) ==
    /\ rol[r].pc = "reset"
    /\ LET k == Cur(rol[r]).key
       IN  /\ UpdateRollup(k, EmptyRollup)
           /\ rol' = [rol EXCEPT ![r] =
                        NextRollup(rol[r], [rol[r].result EXCEPT
                                               !.stats_updated = TRUE,
                                               !.summary_updated = TRUE])]
    /\ UNCHANGED <<now, reviews, flags, embVars, runs, rembs, restVars>>

CountOutcome(rows, o) == Cardinality({i \in 1..Len(rows) : rows[i].outcome = o})

\* a variant that ignores the cursor and takes the last K of all rows
NewIdsIgnoresCursor(rows, cursor) ==
    LET ids == [i \in 1..Len(rows) |-> rows[i].id]
    IN  IF Len(ids) > MAX_NEW_REVIEWS_FOR_SUMMARY
        THEN SubSeq(ids, Len(ids) - MAX_NEW_REVIEWS_FOR_SUMMARY + 1, Len(ids))
        ELSE ids

\* rows.slice(idx + 1) after the cursor, or all rows; then the last K
NewIds(rows, cursor) ==
    LET ids == [i \in 1..Len(rows) |-> rows[i].id]
        at == {i \in 1..Len(ids) : ids[i] = cursor}
        fresh == IF cursor # NIL /\ at # {}
                 THEN SubSeq(ids, (CHOOSE i \in at : TRUE) + 1, Len(ids))
                 ELSE ids
    IN  IF Len(fresh) > MAX_NEW_REVIEWS_FOR_SUMMARY
        THEN SubSeq(fresh, Len(fresh) - MAX_NEW_REVIEWS_FOR_SUMMARY + 1, Len(fresh))
        ELSE fresh

RolWriteStats(r) ==
    /\ rol[r].pc = "stats"
    /\ LET l == rol[r]
           k == Cur(l).key
           rows == l.rows
       IN  /\ UpdateRollup(k, [rollups[k] EXCEPT
                     !.review_count = Len(rows),
                     !.count_offer = CountOutcome(rows, "offer"),
                     !.count_rejected = CountOutcome(rows, "rejected"),
                     !.count_other = Len(rows) - CountOutcome(rows, "offer")
                                               - CountOutcome(rows, "rejected")])
           /\ rol' = [rol EXCEPT ![r].pc = "bodies",
                                 ![r].result.stats_updated = TRUE,
                                 ![r].newIds =
                                     NewIds(rows, Cur(l).last_processed_review_id)]
    /\ UNCHANGED <<now, reviews, flags, embVars, runs, rembs, restVars>>

\* the id of the oldest row instead of the newest
LatestIdTakesFirstRow(l) == l.rows[1].id

\* rows[rows.length - 1].id
LatestId(l) == l.rows[Len(l.rows)].id

\* bodies of the new ids that still exist; body_main is never blank.
\* newBodies holds the ids of the reviews whose bodies go into the prompt
RolFetchBodies(r) ==
    /\ rol[r].pc = "bodies"
    /\ LET l == rol[r]
           newBodies == SelectSeq(l.newIds, LAMBDA id : id \in DOMAIN reviews)
       IN  rol' = [rol EXCEPT ![r].finalSummary = Trim(Cur(l).summary_1000),
                              ![r].newBodies = newBodies,
                              ![r].pc = IF Len(newBodies) > 0 THEN "summarize"
                                        ELSE "clear"]
    /\ UNCHANGED <<now, reviews, flags, embVars, runs, rollups, rollupOrder,
                   rembs, restVars>>

RolSummarize(r) ==
    /\ rol[r].pc = "summarize"
    /\ \E out \in SummaryOutputs :
          rol' = [rol EXCEPT ![r].finalSummary = Trim(out),
                             ![r].pc = "writeSummary"]
    /\ summarized' = summarized (+) SetToBag(Range(rol[r].newBodies))
    /\ UNCHANGED <<now, reviews, flags, embVars, runs, rollups, rollupOrder,
                   rembs, nextId, sub, course, drv>>

\* the summary write without the cursor
RolWriteSummaryKeepsCursor(r) ==
    /\ rol[r].pc = "writeSummary"
    /\ LET l == rol[r]
           k == Cur(l).key
       IN  /\ UpdateRollup(k, [rollups[k] EXCEPT
                     !.summary_1000 = l.finalSummary,
                     !.is_dirty = FALSE])
           /\ rol' = [rol EXCEPT ![r].pc = "embRow",
                                 ![r].result.summary_updated = TRUE]
    /\ UNCHANGED <<now, reviews, flags, embVars, runs, rembs, restVars>>

\* update({ summary_1000, last_processed_review_id, is_dirty: false })
RolWriteSummary(r) ==
    /\ rol[r].pc = "writeSummary"
    /\ LET l == rol[r]
           k == Cur(l).key
       IN  /\ UpdateRollup(k, [rollups[k] EXCEPT
                     !.summary_1000 = l.finalSummary,
                     !.last_processed_review_id = LatestId(l),
                     !.is_dirty = FALSE])
           /\ rol' = [rol EXCEPT ![r].pc = "embRow",
                                 ![r].result.summary_updated = TRUE]
    /\ UNCHANGED <<now, reviews, flags, embVars, runs, rembs, restVars>>

RolWriteClear(r) ==
    /\ rol[r].pc = "clear"
    /\ LET l == rol[r]
           k == Cur(l).key
       IN  /\ UpdateRollup(k, [rollups[k] EXCEPT
                     !.last_processed_review_id = LatestId(l),
                     !.is_dirty = FALSE])
           /\ rol' = [rol EXCEPT ![r].pc = "embRow"]
    /\ UNCHANGED <<now, reviews, flags, embVars, runs, rembs, restVars>>

SummaryHash(l) == sha256Hex(normalizeSummaryForEmbedding(l.finalSummary))

\* !current || current.content_hash !== summaryHash
NeedsEmbedding(k, hash) == k \notin DOMAIN rembs \/ rembs[k].content_hash # hash

RolReadEmbedding(r) ==
    /\ rol[r].pc = "embRow"
    /\ LET l == rol[r]
       IN  rol' = [rol EXCEPT ![r] =
                IF NeedsEmbedding(Cur(l).key, SummaryHash(l))
                THEN IF Len(normalizeSummaryForEmbedding(l.finalSummary)) = 0
                     THEN [l EXCEPT !.pc = "upsertNull"]
                     ELSE [l EXCEPT !.pc = "embed"]
                ELSE NextRollup(l, l.result)]
    /\ UNCHANGED <<now, reviews, flags, embVars, runs, rollups, rollupOrder,
                   rembs, restVars>>

RolEmbedSummary(r) ==
    /\ rol[r].pc = "embed"
    /\ rol' = [rol EXCEPT ![r].pc = "upsertVec"]
    /\ UNCHANGED <<now, reviews, flags, embVars, runs, rollups, rollupOrder,
                   rembs, restVars>>

RolUpsertEmbedding(r) ==
    /\ rol[r].pc \in {"upsertNull", "upsertVec"}
    /\ LET l == rol[r]
           k == Cur(l).key
           row == [content_hash |-> SummaryHash(l),
                   embedding |-> IF l.pc = "upsertNull" THEN NULL ELSE "vector"]
       IN  /\ rembs' = [x \in DOMAIN rembs \cup {k} |->
                          IF x = k THEN row ELSE rembs[x]]
           /\ rol' = [rol EXCEPT ![r] =
                        NextRollup(l, [l.result EXCEPT
                                          !.rollup_embedding_updated = TRUE])]
    /\ UNCHANGED <<now, reviews, flags, embVars, runs, rollups, rollupOrder,
                   restVars>>

\* a variant of the catch block that ends the whole run instead of moving on
\* to the next key
RolThrowEndsRun(r) ==
    /\ rol[r].pc \in {"reviews", "reset", "stats", "bodies", "summarize",
                      "writeSummary", "clear", "embRow", "embed", "upsertNull",
                      "upsertVec"}
    /\ rol' = [rol EXCEPT ![r].pc = "respond",
                          ![r].perRollup =
                              Append(@, [rol[r].result EXCEPT
                                            !.ok = FALSE,
                                            !.kept_dirty = TRUE,
                                            !.errors = <<rol[r].pc>>])]
    /\ UNCHANGED <<now, reviews, flags, embVars, runs, rollups, rollupOrder,
                   rembs, restVars>>

\* a storage or provider call inside the try block fails: catch (e)
RolThrow(r) ==
    /\ rol[r].pc \in {"reviews", "reset", "stats", "bodies", "summarize",
                      "writeSummary", "clear", "embRow", "embed", "upsertNull",
                      "upsertVec"}
    /\ rol' = [rol EXCEPT ![r].pc = "keepDirty",
                          ![r].result.ok = FALSE,
                          ![r].result.kept_dirty = TRUE,
                          ![r].result.errors = <<rol[r].pc>>]
    /\ UNCHANGED <<now, reviews, flags, embVars, runs, rollups, rollupOrder,
                   rembs, restVars>>

RolKeepDirty(r) ==
    /\ rol[r].pc = "keepDirty"
    /\ LET l == rol[r]
           k == Cur(l).key
       IN  /\ UpdateRollup(k, [rollups[k] EXCEPT !.is_dirty = TRUE])
           /\ rol' = [rol EXCEPT ![r] = NextRollup(l, l.result)]
    /\ UNCHANGED <<now, reviews, flags, embVars, runs, rembs, restVars>>

\* the keep-dirty update itself fails: recorded in the result, nothing else
RolKeepDirtyFails(r) ==
    /\ rol[r].pc = "keepDirty"
    /\ rol' = [rol EXCEPT ![r] =
                 NextRollup(rol[r], [rol[r].result EXCEPT
                     !.errors = Append(@, "keep_dirty_update_failed")])]
    /\ UNCHANGED <<now, reviews, flags, embVars, runs, rollups, rollupOrder,
                   rembs, restVars>>

RolRespond(r) ==
    /\ rol[r].pc = "respond"
    /\ rol' = [rol EXCEPT ![r] = [RolIdle EXCEPT !.res = "ok"]]
    /\ UNCHANGED <<now, reviews, flags, embVars, runs, rollups, rollupOrder,
                   rembs, restVars>>

\* the process running the invocation dies between two awaits
RolCrash(r) ==
    /\ rol[r].pc # "idle"
    /\ rol' = [rol EXCEPT ![r] = [RolIdle EXCEPT !.res = "crashed"]]
    /\ UNCHANGED <<now, reviews, flags, embVars, runs, rollups, rollupOrder,
                   rembs, restVars>>

\* the scheduler, or an operator, invokes the rollup runner
RolInvoke(r) ==
    /\ runs < MaxRuns
    /\ runs' = runs + 1
    /\ RolSelect(r)

RolStep(r) ==
    \/ RolInvoke(r)
    \/ RolReadReviews(r)
    \/ RolWriteReset(r)
    \/ RolWriteStats(r)
    \/ RolFetchBodies(r)
    \/ RolSummarize(r)
    \/ RolWriteSummary(r)
    \/ RolWriteClear(r)
    \/ RolReadEmbedding(r)
    \/ RolEmbedSummary(r)
    \/ RolUpsertEmbedding(r)
    \/ RolRespond(r)

\* ------------------------------------------- company review submission (POST)
SubIdle == [pc |-> "idle", kind |-> "none", id |-> NIL, key |-> NULL,
            existing |-> NULL, res |-> "none"]

\* insert into company_reviews ... select('id')
SubCompanyInsert(keys) ==
    /\ sub.pc = "idle"
    /\ nextId <= MaxReviews
    /\ \E k \in keys :
          /\ reviews' = Upsert(reviews, nextId,
                               [key |-> k, outcome |-> OutcomeOf(nextId),
                                body |-> BodyOf(nextId)])
          /\ sub' = [SubIdle EXCEPT !.pc = "job", !.kind = "company",
                                    !.id = nextId, !.key = k]
    /\ nextId' = nextId + 1
    /\ UNCHANGED <<now, flags, embVars, runs, rolVars, course, drv, summarized>>

\* upsert into company_embedding_jobs, onConflict review_id
SubCompanyUpsertJob ==
    /\ sub.pc = "job" /\ sub.kind = "company"
    /\ jobs' = Upsert(jobs, sub.id, QueuedJob)
    /\ jobOrder' = IF sub.id \in DOMAIN jobs THEN jobOrder
                   ELSE Append(jobOrder, sub.id)
    /\ sub' = [sub EXCEPT !.pc = "find"]
    /\ UNCHANGED <<now, reviews, flags, embs, emb, runs, rolVars, nextId,
                   course, drv, summarized>>

\* the rows of company_rollups the lookup matches: eq('company_id', companyId)
RollupsOfCompany(c) == {k \in DOMAIN rollups : k[3] = c}

\* select ... eq('company_id', companyId).maybeSingle(): more than one
\* matching row is an error
SubCompanyFindRollup ==
    /\ sub.pc = "find"
    /\ LET found == RollupsOfCompany(sub.key[3])
       IN  sub' = IF Cardinality(found) > 1
                  THEN [sub EXCEPT !.pc = "rollback"]
                  ELSE IF found = {}
                       THEN [sub EXCEPT !.pc = "insertRollup"]
                       ELSE [sub EXCEPT !.pc = "updateRollup",
                                        !.existing = CHOOSE k \in found : TRUE]
    /\ UNCHANGED <<now, reviews, flags, embVars, runs, rolVars, nextId,
                   course, drv, summarized>>

\* update({ is_dirty: true }) of the row the lookup returned
SubCompanyUpdateRollup ==
    /\ sub.pc = "updateRollup"
    /\ rollups' = [rollups EXCEPT ![sub.existing].is_dirty = TRUE]
    /\ sub' = [sub EXCEPT !.pc = "done", !.res = "ok"]
    /\ UNCHANGED <<now, reviews, flags, embVars, runs, rollupOrder, rembs, rol,
                   nextId, course, drv, summarized>>

\* insert({ company_id: companyId, is_dirty: true }): a row that carries no
\* university and no faculty
SubCompanyInsertRollup ==
    /\ sub.pc = "insertRollup"
    /\ LET k == <<NULL, NULL, sub.key[3]>>
       IN  /\ rollups' = Upsert(rollups, k, [EmptyRollup EXCEPT !.is_dirty = TRUE])
           /\ rollupOrder' = Append(rollupOrder, k)
    /\ sub' = [sub EXCEPT !.pc = "done", !.res = "ok"]
    /\ UNCHANGED <<now, reviews, flags, embVars, runs, rembs, rol, nextId,
                   course, drv, summarized>>

\* a storage call of the submission answers with an error
SubCompanyStorageError ==
    /\ sub.kind = "company"
    /\ sub.pc \in {"job", "find", "updateRollup", "insertRollup"}
    /\ sub' = [sub EXCEPT !.pc = "rollback"]
    /\ UNCHANGED <<now, reviews, flags, embVars, runs, rolVars, nextId,
                   course, drv, summarized>>

\* delete().eq('id', insertedReviewId), its outcome ignored, then the error
\* response.  Rows that reference the review either go with it or block the
\* delete, as the foreign keys of the deployment decide.
SubCompanyRollback ==
    /\ sub.kind = "company"
    /\ sub.pc = "rollback"
    /\ \E cascade \in BOOLEAN :
          IF cascade \/ (sub.id \notin DOMAIN jobs /\ sub.id \notin flags
                                                   /\ sub.id \notin DOMAIN embs)
          THEN /\ reviews' = Without(reviews, {sub.id})
               /\ jobs' = Without(jobs, {sub.id})
               /\ jobOrder' = FilterSeq(jobOrder, Range(jobOrder) \ {sub.id})
               /\ embs' = Without(embs, {sub.id})
               /\ flags' = flags \ {sub.id}
          ELSE UNCHANGED <<reviews, jobs, jobOrder, embs, flags>>
    /\ sub' = [sub EXCEPT !.pc = "done", !.res = "error"]
    /\ UNCHANGED <<now, emb, runs, rolVars, nextId, course, drv, summarized>>

\* -------------------------------------------- course review submission (POST)
\* insert into course_reviews ... select('id')
SubCourseInsert ==
    /\ sub.pc = "idle"
    /\ nextId <= MaxReviews
    /\ \E s \in Subjects, ai_flagged \in BOOLEAN :
          /\ course' = [course EXCEPT
                           !.reviews = Upsert(@, nextId, [subject |-> s])]
          /\ sub' = [SubIdle EXCEPT !.pc = IF ai_flagged THEN "flag" ELSE "job",
                                    !.kind = "course", !.id = nextId, !.key = s]
    /\ nextId' = nextId + 1
    /\ UNCHANGED <<now, reviews, flags, embVars, runs, rolVars, drv, summarized>>

\* insert into course_review_ai_flags when body.ai_flagged === true
SubCourseInsertFlag ==
    /\ sub.pc = "flag" /\ sub.kind = "course"
    /\ course' = [course EXCEPT !.flags = @ \cup {sub.id}]
    /\ sub' = [sub EXCEPT !.pc = "job"]
    /\ UNCHANGED <<now, reviews, flags, embVars, runs, rolVars, nextId, drv,
                   summarized>>

\* upsert into embedding_jobs, onConflict review_id
SubCourseUpsertJob ==
    /\ sub.pc = "job" /\ sub.kind = "course"
    /\ course' = [course EXCEPT !.jobs = Upsert(@, sub.id, QueuedJob)]
    /\ sub' = [sub EXCEPT !.pc = "rollup"]
    /\ UNCHANGED <<now, reviews, flags, embVars, runs, rolVars, nextId, drv,
                   summarized>>

\* upsert({ subject_id, is_dirty: true }, onConflict subject_id)
SubCourseUpsertRollup ==
    /\ sub.pc = "rollup" /\ sub.kind = "course"
    /\ course' = [course EXCEPT !.rollups =
                          DirtyUpsert(@, sub.key, EmptySubjectRollup)]
    /\ sub' = [sub EXCEPT !.pc = "done", !.res = "ok"]
    /\ UNCHANGED <<now, reviews, flags, embVars, runs, rolVars, nextId, drv,
                   summarized>>

\* a storage call of the submission answers with an error
SubCourseStorageError ==
    /\ sub.kind = "course"
    /\ sub.pc \in {"flag", "job", "rollup"}
    /\ sub' = [sub EXCEPT !.pc = "rollback"]
    /\ UNCHANGED <<now, reviews, flags, embVars, runs, rolVars, nextId,
                   course, drv, summarized>>

\* delete().eq('id', insertedReviewId), its outcome ignored, then the error
\* response
SubCourseRollback ==
    /\ sub.kind = "course"
    /\ sub.pc = "rollback"
    /\ \E cascade \in BOOLEAN :
          IF cascade \/ (sub.id \notin DOMAIN course.jobs /\ sub.id \notin course.flags)
          THEN course' = [course EXCEPT !.reviews = Without(@, {sub.id}),
                                        !.jobs = Without(@, {sub.id}),
                                        !.flags = @ \ {sub.id}]
          ELSE UNCHANGED course
    /\ sub' = [sub EXCEPT !.pc = "done", !.res = "error"]
    /\ UNCHANGED <<now, reviews, flags, embVars, runs, rolVars, nextId, drv,
                   summarized>>

\* the response is sent
SubRespond ==
    /\ sub.pc = "done"
    /\ sub' = SubIdle
    /\ UNCHANGED <<now, reviews, flags, embVars, runs, rolVars, nextId,
                   course, drv, summarized>>

\* ------------------------------------------------ full-rebuild driver (POST)
REVIEWS_PAGE_SIZE == 2
SUBJECTS_PAGE_SIZE == 2
COMPANIES_PAGE_SIZE == 2
MAX_EMBEDDING_LOOPS == 2
MAX_ROLLUP_LOOPS == 2

\* last: lastId / lastKey of the paging function in progress ('' is 0)
DrvIdle == [pc |-> "idle", last |-> 0, loops |-> 0, res |-> "none"]

\* the rank of a company id in ascending order
CompanyOrd(c) == CHOOSE i \in 1..Len(CompanyList) : CompanyList[i] = c

\* order('id').gt('id', lastId).limit(size)
PageOfIds(ids, lastId, size) == Take(SeqOfSet({id \in ids : id > lastId}), size)

\* the request is authorized and the requeue phase begins
DrvStart ==
    /\ drv.pc = "idle" /\ drv.res = "none"
    /\ drv' = [drv EXCEPT !.pc = "enqueueAllEmbeddingJobs"]
    /\ UNCHANGED <<now, reviews, flags, embVars, runs, rolVars, nextId, sub, course,
                   summarized>>

\* the first page query of a paging function is .gt(column, ''): where the
\* column is a uuid the database rejects the comparison, the function throws
\* and the catch block of POST answers 500
DrvFetchRejected ==
    /\ drv.pc \in {"enqueueAllEmbeddingJobs", "enqueueAllCompanyEmbeddingJobs",
                   "markAllSubjectsDirty", "markAllCompanyRollupsDirty"}
    /\ drv.last = 0
    /\ drv' = [drv EXCEPT !.pc = "done", !.res = "error"]
    /\ UNCHANGED <<now, reviews, flags, embVars, runs, rolVars, nextId, sub, course,
                   summarized>>

\* one turn of the while loop of enqueueAllEmbeddingJobs
DrvEnqueueAllEmbeddingJobs ==
    /\ drv.pc = "enqueueAllEmbeddingJobs"
    /\ LET rows == PageOfIds(DOMAIN course.reviews, drv.last, REVIEWS_PAGE_SIZE)
       IN  IF Len(rows) = 0
           THEN /\ drv' = [drv EXCEPT !.pc = "enqueueAllCompanyEmbeddingJobs",
                                      !.last = 0]
                /\ UNCHANGED course
           ELSE /\ course' = [course EXCEPT !.jobs =
                                 [id \in DOMAIN course.jobs \cup Range(rows) |->
                                     IF id \in Range(rows) THEN QueuedJob
                                     ELSE course.jobs[id]]]
                /\ drv' = [drv EXCEPT !.last = rows[Len(rows)]]
    /\ UNCHANGED <<now, reviews, flags, embVars, runs, rolVars, nextId, sub,
                   summarized>>

\* one turn of the while loop of enqueueAllCompanyEmbeddingJobs
DrvEnqueueAllCompanyEmbeddingJobs ==
    /\ drv.pc = "enqueueAllCompanyEmbeddingJobs"
    /\ LET rows == PageOfIds(DOMAIN reviews, drv.last, REVIEWS_PAGE_SIZE)
       IN  IF Len(rows) = 0
           THEN /\ drv' = [drv EXCEPT !.pc = "markAllSubjectsDirty", !.last = 0]
                /\ UNCHANGED <<jobs, jobOrder>>
           ELSE /\ jobs' = [id \in DOMAIN jobs \cup Range(rows) |->
                               IF id \in Range(rows) THEN QueuedJob ELSE jobs[id]]
                /\ jobOrder' = Touch(jobOrder, Range(rows))
                /\ drv' = [drv EXCEPT !.last = rows[Len(rows)]]
    /\ UNCHANGED <<now, reviews, flags, embs, emb, runs, rolVars, nextId, sub,
                   course, summarized>>

\* one turn of the while loop of markAllSubjectsDirty
DrvMarkAllSubjectsDirty ==
    /\ drv.pc = "markAllSubjectsDirty"
    /\ LET rows == PageOfIds(Subjects, drv.last, SUBJECTS_PAGE_SIZE)
       IN  IF Len(rows) = 0
           THEN /\ drv' = [drv EXCEPT !.pc = "markAllCompanyRollupsDirty",
                                      !.last = 0]
                /\ UNCHANGED course
           ELSE /\ course' = [course EXCEPT !.rollups =
                                 [x \in DOMAIN course.rollups \cup Range(rows) |->
                                     IF x \in Range(rows)
                                     THEN DirtyUpsert(course.rollups, x,
                                                      EmptySubjectRollup)[x]
                                     ELSE course.rollups[x]]]
                /\ drv' = [drv EXCEPT !.last = rows[Len(rows)]]
    /\ UNCHANGED <<now, reviews, flags, embVars, runs, rolVars, nextId, sub,
                   summarized>>

\* the pages order('company_id').gt('company_id', lastKey).limit(size) may
\* return: rows of one company come in any order
CompanyRollupPages(lastKey, size) ==
    LET cand == {k \in DOMAIN rollups : CompanyOrd(k[3]) > lastKey}
        n == IF Cardinality(cand) < size THEN Cardinality(cand) ELSE size
    IN  {page \in SUBSET cand :
            /\ Cardinality(page) = n
            /\ \A a \in page : \A b \in cand \ page :
                  CompanyOrd(a[3]) <= CompanyOrd(b[3])}

\* rows[rows.length - 1].company_id
LastCompanyOf(page) ==
    CHOOSE i \in 1..Len(CompanyList) :
        /\ \E k \in page : CompanyOrd(k[3]) = i
        /\ \A k \in page : CompanyOrd(k[3]) <= i

\* one turn of the while loop of markAllCompanyRollupsDirty
DrvMarkAllCompanyRollupsDirty ==
    /\ drv.pc = "markAllCompanyRollupsDirty"
    /\ \E page \in CompanyRollupPages(drv.last, COMPANIES_PAGE_SIZE) :
          IF page = {}
          THEN /\ drv' = [drv EXCEPT !.pc = "runEmbeddings", !.last = 0]
               /\ UNCHANGED <<rollups, rollupOrder>>
          ELSE /\ rollups' = [k \in DOMAIN rollups |->
                                 IF k \in page
                                 THEN DirtyUpsert(rollups, k, EmptyRollup)[k]
                                 ELSE rollups[k]]
               /\ rollupOrder' = FilterSeq(rollupOrder, Range(rollupOrder) \ page)
                                    \o FilterSeq(rollupOrder, page)
               /\ drv' = [drv EXCEPT !.last = LastCompanyOf(page)]
    /\ UNCHANGED <<now, reviews, flags, embVars, runs, rembs, rol, nextId, sub,
                   course, summarized>>

\* the loop left after its first turn, whatever the run reported
AfterRunLeavesAtOnce(d, empty, ceiling, next) ==
    [d EXCEPT !.pc = next, !.loops = 0]

\* for (; loops < ceiling; loops += 1) { result = run(); if (empty) break; }
\* after one turn of the body
AfterRun(d, empty, ceiling, next) ==
    IF empty \/ d.loops + 1 >= ceiling
    THEN [d EXCEPT !.pc = next, !.loops = 0]
    ELSE [d EXCEPT !.loops = d.loops + 1]

\* one run of the course embedding runner: up to MAX_JOBS_PER_RUN queued or
\* failed jobs end done
CourseEmbeddingRun(table) ==
    LET picked == Range(Take(SeqOfSet({id \in DOMAIN table :
                                 table[id].status \in {"queued", "failed"}}),
                             MAX_JOBS_PER_RUN))
    IN  [picked |-> Cardinality(picked),
         jobs |-> [id \in DOMAIN table |->
                      IF id \in picked
                      THEN [table[id] EXCEPT !.status = "done",
                                             !.attempt_count = @ + 1]
                      ELSE table[id]]]

\* one run of the course rollup runner: up to MAX_ROLLUPS_PER_RUN dirty
\* subjects end clean
CourseRollupRun(table) ==
    LET picked == Range(Take(SeqOfSet({x \in DOMAIN table : table[x].is_dirty}),
                             MAX_ROLLUPS_PER_RUN))
    IN  [subjects |-> Cardinality(picked),
         rollups |-> [x \in DOMAIN table |->
                         IF x \in picked THEN [table[x] EXCEPT !.is_dirty = FALSE]
                         ELSE table[x]]]

\* one turn of the loop over runEmbeddingsOnce
DrvRunEmbeddings ==
    /\ drv.pc = "runEmbeddings"
    /\ LET result == CourseEmbeddingRun(course.jobs)
       IN  /\ course' = [course EXCEPT !.jobs = result.jobs]
           /\ drv' = AfterRun(drv, result.picked = 0, MAX_EMBEDDING_LOOPS,
                              "runCompanyEmbeddings")
    /\ UNCHANGED <<now, reviews, flags, embVars, runs, rolVars, nextId, sub,
                   summarized>>

\* runCompanyEmbeddingsOnce: the driver calls the company embedding runner
DrvRunCompanyEmbeddingsOnce ==
    /\ drv.pc = "runCompanyEmbeddings"
    /\ emb["r1"].res = "none"
    /\ EmbSelect("r1")
    /\ UNCHANGED runs

\* the driver reads the result of the run
DrvCompanyEmbeddingsResult ==
    /\ drv.pc = "runCompanyEmbeddings"
    /\ emb["r1"].pc = "idle" /\ emb["r1"].res # "none"
    /\ drv' = AfterRun(drv, emb["r1"].res = "empty", MAX_EMBEDDING_LOOPS,
                       "runRollups")
    /\ emb' = [emb EXCEPT !["r1"].res = "none"]
    /\ UNCHANGED <<now, reviews, flags, jobs, jobOrder, embs, runs, rolVars,
                   nextId, sub, course, summarized>>

\* one turn of the loop over runRollupsOnce
DrvRunRollups ==
    /\ drv.pc = "runRollups"
    /\ LET result == CourseRollupRun(course.rollups)
       IN  /\ course' = [course EXCEPT !.rollups = result.rollups]
           /\ drv' = AfterRun(drv, result.subjects = 0, MAX_ROLLUP_LOOPS,
                              "runCompanyRollups")
    /\ UNCHANGED <<now, reviews, flags, embVars, runs, rolVars, nextId, sub,
                   summarized>>

\* runCompanyRollupsOnce: the driver calls the company rollup runner
DrvRunCompanyRollupsOnce ==
    /\ drv.pc = "runCompanyRollups"
    /\ rol["r1"].res = "none"
    /\ RolSelect("r1")
    /\ UNCHANGED runs

\* the driver reads the result of the run
DrvCompanyRollupsResult ==
    /\ drv.pc = "runCompanyRollups"
    /\ rol["r1"].pc = "idle" /\ rol["r1"].res # "none"
    /\ drv' = AfterRun(drv, rol["r1"].res = "empty", MAX_ROLLUP_LOOPS, "respond")
    /\ rol' = [rol EXCEPT !["r1"].res = "none"]
    /\ UNCHANGED <<now, reviews, flags, embVars, runs, rollups, rollupOrder,
                   rembs, nextId, sub, course, summarized>>

\* the select of the dirty rollups fails: { ok: false, error }, status 500
RolSelectFails(r) ==
    /\ rol[r].pc = "idle"
    /\ rol' = [rol EXCEPT ![r] = [RolIdle EXCEPT !.res = "error"]]
    /\ UNCHANGED <<now, reviews, flags, embVars, rollups, rollupOrder, rembs,
                   restVars>>

\* runCompanyRollupsOnce when the runner answers with an error at once
DrvRunCompanyRollupsFails ==
    /\ drv.pc = "runCompanyRollups"
    /\ rol["r1"].res = "none"
    /\ RolSelectFails("r1")
    /\ UNCHANGED runs

\* runEmbeddingsOnce gets an error response: no message, no counts
DrvRunEmbeddingsFails ==
    /\ drv.pc = "runEmbeddings"
    /\ drv' = AfterRun(drv, FALSE, MAX_EMBEDDING_LOOPS, "runCompanyEmbeddings")
    /\ UNCHANGED <<now, reviews, flags, embVars, runs, rolVars, nextId, sub, course,
                   summarized>>

\* runRollupsOnce gets an error response: no message, no counts
DrvRunRollupsFails ==
    /\ drv.pc = "runRollups"
    /\ drv' = AfterRun(drv, FALSE, MAX_ROLLUP_LOOPS, "runCompanyRollups")
    /\ UNCHANGED <<now, reviews, flags, embVars, runs, rolVars, nextId, sub, course,
                   summarized>>

\* NextResponse.json({ ok: true, ... })
DrvRespond ==
    /\ drv.pc = "respond"
    /\ drv' = [drv EXCEPT !.pc = "done", !.res = "ok"]
    /\ UNCHANGED <<now, reviews, flags, embVars, runs, rolVars, nextId, sub, course,
                   summarized>>

\* ------------------------------------------------------------- environment
\* time passes: just under, or just over, the staleness window
Tick ==
    /\ \E d \in {LOCK_STALE_MINUTES, LOCK_STALE_MINUTES + 1} :
          /\ now + d <= MaxNow
          /\ now' = now + d
    /\ UNCHANGED <<reviews, flags, jobs, jobOrder, embs, emb, runs, rolVars, restVars>>

\* moderation flags a review after the fact
FlagReview ==
    /\ \E id \in DOMAIN reviews \ flags : flags' = flags \cup {id}
    /\ UNCHANGED <<now, reviews, jobs, jobOrder, embs, emb, runs, rolVars, restVars>>

\* the same, at a moment when no runner invocation is in flight
FlagReviewBetweenRuns ==
    /\ \A r \in Runners : emb[r].pc = "idle" /\ rol[r].pc = "idle"
    /\ FlagReview

\* a review row is hard-deleted; its job row stays
DeleteReview ==
    /\ \E id \in DOMAIN reviews :
          /\ reviews' = [x \in DOMAIN reviews \ {id} |-> reviews[x]]
          /\ embs' = [x \in DOMAIN embs \ {id} |-> embs[x]]
          /\ flags' = flags \ {id}
    /\ UNCHANGED <<now, jobs, jobOrder, emb, runs, rolVars, restVars>>

\* the database after n submissions under one key, before any runner ran
InitEmb ==
    /\ now = 0
    /\ \E n \in 1..MaxReviews :
          /\ reviews = [id \in 1..n |->
                          [key |-> <<"u1", FACULTY, "cA">>, outcome |-> "offer",
                           body |-> BodyOf(id)]]
          /\ jobs = [id \in 1..n |-> QueuedJob]
          /\ jobOrder = SeqOfSet(1..n)
    /\ flags = {}
    /\ embs = << >>
    /\ emb = [r \in Runners |-> EmbIdle]
    /\ runs = 0
    /\ rollups = << >>
    /\ rollupOrder = << >>
    /\ rembs = << >>
    /\ rol = [r \in Runners |-> RolIdle]
    /\ nextId = Len(reviews) + 1
    /\ sub = SubIdle
    /\ course = EmptyCourse
    /\ drv = DrvIdle
    /\ summarized = EmptyBag

\* the scheduler, or an operator, invokes the embedding runner
EmbInvoke(r) ==
    /\ runs < MaxRuns
    /\ runs' = runs + 1
    /\ EmbSelect(r)

EmbStep(r) ==
    \/ EmbInvoke(r)
    \/ EmbLock(r)
    \/ EmbFetchFlags(r)
    \/ EmbDeleteFlagged(r)
    \/ EmbMarkFlaggedDone(r)
    \/ EmbFetchBodies(r)
    \/ EmbFetchHashes(r)
    \/ EmbMarkSkipped(r)
    \/ EmbMarkMissing(r)
    \/ EmbCallProvider(r)
    \/ EmbUpsertEmbeddings(r)
    \/ EmbMarkBatchDone(r)
    \/ EmbMarkBatchFailed(r)

\* one runner, invoked again and again, in a changing environment
NextEmb ==
    \/ EmbStep("r1")
    \/ EmbStorageError("r1")
    \/ EmbBatchThrow("r1")
    \/ EmbCrash("r1")
    \/ Tick
    \/ FlagReview
    \/ DeleteReview

SpecEmb == InitEmb /\ [][NextEmb]_vars

\* the database after n submissions under one key and a requeue of every
\* job: the oldest review may have been embedded by an earlier run
InitRequeued ==
    /\ now = 0
    /\ \E n \in 1..MaxReviews, e \in 0..1 :
          /\ reviews = [id \in 1..n |->
                          [key |-> <<"u1", FACULTY, "cA">>, outcome |-> "offer",
                           body |-> BodyOf(id)]]
          /\ jobs = [id \in 1..n |-> QueuedJob]
          /\ jobOrder = SeqOfSet(1..n)
          /\ embs = [id \in 1..e |-> sha256Hex(BodyOf(id))]
    /\ flags = {}
    /\ emb = [r \in Runners |-> EmbIdle]
    /\ runs = 0
    /\ rollups = << >>
    /\ rollupOrder = << >>
    /\ rembs = << >>
    /\ rol = [r \in Runners |-> RolIdle]
    /\ nextId = Len(reviews) + 1
    /\ sub = SubIdle
    /\ course = EmptyCourse
    /\ drv = DrvIdle
    /\ summarized = EmptyBag

\* one runner, invoked again and again, with failing calls, while moderation
\* flags reviews between the runs
NextEmbFlag ==
    \/ EmbStep("r1")
    \/ EmbStorageError("r1")
    \/ EmbBatchThrow("r1")
    \/ FlagReviewBetweenRuns
    \/ DeleteReview

SpecEmbFlag == InitRequeued /\ [][NextEmbFlag]_vars

\* two invocations overlapping in time on the same job table
NextEmbPair ==
    \/ \E r \in Runners : EmbStep(r)
    \/ \E r \in Runners : EmbStorageError(r)
    \/ \E r \in Runners : EmbBatchThrow(r)
    \/ FlagReview
    \/ DeleteReview

SpecEmbPair == InitEmb /\ [][NextEmbPair]_vars

\* two aggregation keys of different companies
RollupKeys == {<<"u1", FACULTY, "cA">>, <<"u2", FACULTY, "cB">>}

\* the database after n company submissions under the two keys: every review
\* has its queued job, both rollups exist and are dirty, no runner ran yet
InitRollup ==
    /\ now = 0
    /\ \E n \in 0..MaxReviews :
          /\ \E keyOf \in [1..n -> RollupKeys] :
                reviews = [id \in 1..n |->
                             [key |-> keyOf[id], outcome |-> OutcomeOf(id),
                              body |-> BodyOf(id)]]
          /\ jobs = [id \in 1..n |-> QueuedJob]
          /\ jobOrder = SeqOfSet(1..n)
          /\ nextId = n + 1
    /\ flags = {}
    /\ embs = << >>
    /\ emb = [r \in Runners |-> EmbIdle]
    /\ runs = 0
    /\ rollups = [k \in RollupKeys |-> [EmptyRollup EXCEPT !.is_dirty = TRUE]]
    /\ rollupOrder = <<<<"u1", FACULTY, "cA">>, <<"u2", FACULTY, "cB">>>>
    /\ rembs = << >>
    /\ rol = [r \in Runners |-> RolIdle]
    /\ sub = SubIdle
    /\ course = EmptyCourse
    /\ drv = DrvIdle
    /\ summarized = EmptyBag

\* one rollup runner, invoked again and again, with failing calls, while
\* moderation flags reviews
NextRollupRun ==
    \/ RolStep("r1")
    \/ RolThrow("r1")
    \/ RolKeepDirty("r1")
    \/ RolKeepDirtyFails("r1")
    \/ RolCrash("r1")
    \/ FlagReviewBetweenRuns

SpecRollup == InitRollup /\ [][NextRollupRun]_vars

\* one rollup runner while company reviews are submitted under existing keys
NextRollupRace ==
    \/ RolStep("r1")
    \/ SubCompanyInsert(DOMAIN rollups)
    \/ SubCompanyUpsertJob
    \/ SubCompanyFindRollup
    \/ SubCompanyUpdateRollup
    \/ SubRespond

SpecRollupRace == InitRollup /\ [][NextRollupRace]_vars

\* the same, with moderation flagging reviews between the runs
NextRollupLife ==
    \/ NextRollupRace
    \/ FlagReviewBetweenRuns

SpecRollupLife == InitRollup /\ [][NextRollupLife]_vars

\* the key the two invocations meet on
PairKey == <<"u2", FACULTY, "cB">>

\* the database after at most one company submission under one key; the
\* rollup of the key exists and is dirty
InitRollupPair ==
    /\ now = 0
    /\ \E n \in 0..1 :
          /\ reviews = [id \in 1..n |->
                          [key |-> PairKey, outcome |-> OutcomeOf(id),
                           body |-> BodyOf(id)]]
          /\ jobs = [id \in 1..n |-> QueuedJob]
          /\ jobOrder = SeqOfSet(1..n)
          /\ nextId = n + 1
    /\ flags = {}
    /\ embs = << >>
    /\ emb = [r \in Runners |-> EmbIdle]
    /\ runs = 0
    /\ rollups = [k \in {PairKey} |-> [EmptyRollup EXCEPT !.is_dirty = TRUE]]
    /\ rollupOrder = <<PairKey>>
    /\ rembs = << >>
    /\ rol = [r \in Runners |-> RolIdle]
    /\ sub = SubIdle
    /\ course = EmptyCourse
    /\ drv = DrvIdle
    /\ summarized = EmptyBag

\* two rollup-runner invocations overlapping in time while company reviews
\* are submitted under existing keys
NextRollupPair ==
    \/ \E r \in Runners : RolStep(r)
    \/ SubCompanyInsert(DOMAIN rollups)
    \/ SubCompanyUpsertJob
    \/ SubCompanyFindRollup
    \/ SubCompanyUpdateRollup
    \/ SubRespond

SpecRollupPair == InitRollupPair /\ [][NextRollupPair]_vars

\* the database after up to MaxStatsReviews company submissions, all under
\* one key or the newest under the other key; both rollups exist and are
\* dirty
InitStats ==
    /\ now = 0
    /\ \E n \in 0..MaxStatsReviews, split \in BOOLEAN :
          /\ reviews = [id \in 1..n |->
                          [key |-> IF split /\ id = n THEN <<"u2", FACULTY, "cB">>
                                   ELSE <<"u1", FACULTY, "cA">>,
                           outcome |-> OutcomeOf(id), body |-> BodyOf(id)]]
          /\ jobs = [id \in 1..n |-> QueuedJob]
          /\ jobOrder = SeqOfSet(1..n)
          /\ nextId = n + 1
    /\ flags = {}
    /\ embs = << >>
    /\ emb = [r \in Runners |-> EmbIdle]
    /\ runs = 0
    /\ rollups = [k \in RollupKeys |-> [EmptyRollup EXCEPT !.is_dirty = TRUE]]
    /\ rollupOrder = <<<<"u1", FACULTY, "cA">>, <<"u2", FACULTY, "cB">>>>
    /\ rembs = << >>
    /\ rol = [r \in Runners |-> RolIdle]
    /\ sub = SubIdle
    /\ course = EmptyCourse
    /\ drv = DrvIdle
    /\ summarized = EmptyBag

\* one rollup runner, invoked again and again, with failing calls, while
\* moderation flags reviews between the runs
NextStats ==
    \/ RolStep("r1")
    \/ RolThrow("r1")
    \/ RolKeepDirty("r1")
    \/ FlagReviewBetweenRuns

SpecStats == InitStats /\ [][NextStats]_vars

\* a company review is submitted at a moment when no rollup runner is in
\* flight
SubCompanyInsertBetweenRuns ==
    /\ \A r \in Runners : rol[r].pc = "idle"
    /\ SubCompanyInsert(DOMAIN rollups)

\* one rollup runner, invoked again and again, with failing calls, while
\* company reviews arrive between the runs
NextCursor ==
    \/ RolStep("r1")
    \/ RolThrow("r1")
    \/ RolKeepDirty("r1")
    \/ SubCompanyInsertBetweenRuns
    \/ SubCompanyUpsertJob
    \/ SubCompanyFindRollup
    \/ SubCompanyUpdateRollup
    \/ SubRespond

SpecCursor == InitRollupPair /\ [][NextCursor]_vars

\* the aggregation keys a company review is submitted under
SubmitKeys == {<<"u1", FACULTY, "cA">>, <<"u2", FACULTY, "cA">>,
               <<"u1", FACULTY, "cB">>}

\* company_rollups keys in a fixed order
KeyList == <<<<"u1", FACULTY, "cA">>, <<"u2", FACULTY, "cA">>,
             <<"u1", FACULTY, "cB">>, <<"u2", FACULTY, "cB">>,
             <<"u1", FACULTY, "cC">>>>

\* a database with some clean rollups and no reviews yet
InitSubmit ==
    /\ now = 0
    /\ reviews = << >>
    /\ flags = {}
    /\ jobs = << >>
    /\ jobOrder = << >>
    /\ embs = << >>
    /\ emb = [r \in Runners |-> EmbIdle]
    /\ runs = 0
    /\ \E S \in SUBSET SubmitKeys :
          /\ rollups = [k \in S |-> EmptyRollup]
          /\ rollupOrder = FilterSeq(KeyList, S)
    /\ rembs = << >>
    /\ rol = [r \in Runners |-> RolIdle]
    /\ nextId = 1
    /\ sub = SubIdle
    /\ \E T \in {{}, {1}} :
          course = [EmptyCourse EXCEPT !.rollups = [x \in T |-> EmptySubjectRollup]]
    /\ drv = DrvIdle
    /\ summarized = EmptyBag

\* reviews of both kinds are submitted, one request at a time
NextSubmit ==
    \/ SubCompanyInsert(SubmitKeys)
    \/ SubCompanyUpsertJob
    \/ SubCompanyFindRollup
    \/ SubCompanyUpdateRollup
    \/ SubCompanyInsertRollup
    \/ SubCompanyStorageError
    \/ SubCompanyRollback
    \/ SubCourseInsert
    \/ SubCourseInsertFlag
    \/ SubCourseUpsertJob
    \/ SubCourseUpsertRollup
    \/ SubCourseStorageError
    \/ SubCourseRollback
    \/ SubRespond

SpecSubmit == InitSubmit /\ [][NextSubmit]_vars

\* the newest review of a key, or null
LatestReviewOf(k, n) ==
    LET mine == {id \in 1..n : KeyList[((id - 1) % Len(KeyList)) + 1] = k}
    IN  IF mine = {} THEN NIL ELSE CHOOSE id \in mine : \A j \in mine : j <= id

\* a database of n company reviews and n course reviews, the first of them
\* embedded by earlier runs, the last one possibly flagged, and any set of
\* company rollups, all clean, either never summarized or summarized up to
\* the newest review of their key
InitRebuild ==
    /\ now = 0
    /\ \E n \in 0..MaxRebuildReviews :
          /\ reviews = [id \in 1..n |->
                          [key |-> KeyList[((id - 1) % Len(KeyList)) + 1],
                           outcome |-> OutcomeOf(id), body |-> BodyOf(id)]]
          /\ \E e \in {0, IF n > 0 THEN 1 ELSE 0} :
                /\ jobs = [id \in 1..n |->
                             IF id <= e THEN [QueuedJob EXCEPT !.status = "done",
                                                               !.attempt_count = 1]
                             ELSE QueuedJob]
                /\ embs = [id \in 1..e |-> sha256Hex(BodyOf(id))]
          /\ jobOrder = SeqOfSet(1..n)
          /\ flags \in {{}, {id \in 1..n : id = n}}
          /\ nextId = n + 1
          /\ course = [reviews |-> [id \in 1..n |-> [subject |-> ((id - 1) % 3) + 1]],
                       flags |-> {},
                       jobs |-> [id \in 1..n |-> QueuedJob],
                       rollups |-> [x \in {1} |-> EmptySubjectRollup]]
    /\ emb = [r \in Runners |-> EmbIdle]
    /\ runs = 0
    /\ \E S \in SUBSET Range(KeyList), seen \in BOOLEAN :
          /\ rollups = [k \in S |->
                IF seen /\ LatestReviewOf(k, nextId - 1) # NIL
                THEN [EmptyRollup EXCEPT
                         !.summary_1000 = <<"x">>,
                         !.last_processed_review_id = LatestReviewOf(k, nextId - 1)]
                ELSE EmptyRollup]
          /\ rollupOrder = FilterSeq(KeyList, S)
    /\ rembs = << >>
    /\ rol = [r \in Runners |-> RolIdle]
    /\ sub = SubIdle
    /\ drv = DrvIdle
    /\ summarized = EmptyBag

\* one invocation of the full-rebuild driver on a quiet database; no call
\* fails but, possibly, the first page query of a paging function
NextRebuild ==
    \/ DrvStart
    \/ DrvFetchRejected
    \/ DrvEnqueueAllEmbeddingJobs
    \/ DrvEnqueueAllCompanyEmbeddingJobs
    \/ DrvMarkAllSubjectsDirty
    \/ DrvMarkAllCompanyRollupsDirty
    \/ DrvRunEmbeddings
    \/ DrvRunCompanyEmbeddingsOnce
    \/ EmbLock("r1")
    \/ EmbFetchFlags("r1")
    \/ EmbDeleteFlagged("r1")
    \/ EmbMarkFlaggedDone("r1")
    \/ EmbFetchBodies("r1")
    \/ EmbFetchHashes("r1")
    \/ EmbMarkSkipped("r1")
    \/ EmbCallProvider("r1")
    \/ EmbUpsertEmbeddings("r1")
    \/ EmbMarkBatchDone("r1")
    \/ DrvCompanyEmbeddingsResult
    \/ DrvRunRollups
    \/ DrvRunCompanyRollupsOnce
    \/ RolReadReviews("r1")
    \/ RolWriteReset("r1")
    \/ RolWriteStats("r1")
    \/ RolFetchBodies("r1")
    \/ RolSummarize("r1")
    \/ RolWriteSummary("r1")
    \/ RolWriteClear("r1")
    \/ RolReadEmbedding("r1")
    \/ RolEmbedSummary("r1")
    \/ RolUpsertEmbedding("r1")
    \/ RolRespond("r1")
    \/ DrvCompanyRollupsResult
    \/ DrvRespond

\* the request runs to its response: every await returns
SpecRebuild == InitRebuild /\ [][NextRebuild]_vars /\ WF_vars(NextRebuild)

\* the datasets of InitRebuild with at most MaxFaultyReviews reviews of each
\* kind and rollups of the keys that have reviews
InitRebuildFaulty ==
    /\ InitRebuild
    /\ Cardinality(DOMAIN reviews) <= MaxFaultyReviews
    /\ \A k \in DOMAIN rollups : \E id \in DOMAIN reviews : reviews[id].key = k

\* one invocation of the driver while provider calls, storage calls and
\* whole runs of the runners may fail, any number of times
NextRebuildFaulty ==
    \/ NextRebuild
    \/ EmbStorageError("r1")
    \/ EmbBatchThrow("r1")
    \/ EmbMarkBatchFailed("r1")
    \/ RolThrow("r1")
    \/ RolKeepDirty("r1")
    \/ DrvRunEmbeddingsFails
    \/ DrvRunRollupsFails
    \/ DrvRunCompanyRollupsFails

\* every await returns, with a result or with an error
SpecRebuildFaulty ==
    InitRebuildFaulty /\ [][NextRebuildFaulty]_vars /\ WF_vars(NextRebuildFaulty)

\* the requeue phase of a full rebuild while an embedding runner, invoked
\* by the scheduler, works on the same job table and moderation flags or
\* removes reviews
NextRequeueRace ==
    \/ DrvStart
    \/ DrvEnqueueAllEmbeddingJobs
    \/ DrvEnqueueAllCompanyEmbeddingJobs
    \/ EmbStep("r2")
    \/ FlagReview
    \/ DeleteReview

SpecRequeueRace == InitRequeued /\ [][NextRequeueRace]_vars

\* a backlog of dirty rollups, oldest first, the first of them with reviews
InitBacklog ==
    /\ now = 0
    /\ \E n \in 0..2 :
          /\ reviews = [id \in 1..n |->
                          [key |-> KeyList[id], outcome |-> OutcomeOf(id),
                           body |-> BodyOf(id)]]
          /\ jobs = [id \in 1..n |-> QueuedJob]
          /\ jobOrder = SeqOfSet(1..n)
          /\ nextId = n + 1
    /\ flags = {}
    /\ embs = << >>
    /\ emb = [r \in Runners |-> EmbIdle]
    /\ runs = 0
    /\ \E m \in 1..MaxDirtyKeys :
          /\ rollups = [k \in Range(Take(KeyList, m)) |->
                           [EmptyRollup EXCEPT !.is_dirty = TRUE]]
          /\ rollupOrder = Take(KeyList, m)
    /\ rembs = << >>
    /\ rol = [r \in Runners |-> RolIdle]
    /\ sub = SubIdle
    /\ course = EmptyCourse
    /\ drv = DrvIdle
    /\ summarized = EmptyBag

\* one rollup runner, invoked again and again on the backlog, with failing
\* calls
NextBacklog ==
    \/ RolStep("r1")
    \/ RolThrow("r1")
    \/ RolKeepDirty("r1")

SpecBacklog == InitBacklog /\ [][NextBacklog]_vars

\* the record a successful run leaves for a key with the given reviews
SummarizedRollup(ids) ==
    [EmptyRollup EXCEPT
        !.summary_1000 = <<"x">>,
        !.review_count = Cardinality(ids),
        !.count_offer = Cardinality({id \in ids : OutcomeOf(id) = "offer"}),
        !.count_rejected = Cardinality({id \in ids : OutcomeOf(id) = "rejected"}),
        !.count_other = Cardinality({id \in ids : OutcomeOf(id) = "other"}),
        !.last_processed_review_id = CHOOSE id \in ids : \A j \in ids : j <= id]

\* a database of n company reviews and n course reviews whose rollups, if
\* present, are clean and were summarized by earlier runs
InitFrame ==
    /\ now = 0
    /\ \E n \in 1..2 :
          /\ reviews = [id \in 1..n |->
                          [key |-> KeyList[id], outcome |-> OutcomeOf(id),
                           body |-> BodyOf(id)]]
          /\ jobs = [id \in 1..n |-> [QueuedJob EXCEPT !.status = "done",
                                                       !.attempt_count = 1]]
          /\ embs = [id \in 1..n |-> sha256Hex(BodyOf(id))]
          /\ jobOrder = SeqOfSet(1..n)
          /\ nextId = n + 1
          /\ \E T \in {{}, {1}} :
                course = [reviews |-> [id \in 1..n |-> [subject |-> 1]],
                          flags |-> {},
                          jobs |-> [id \in 1..n |-> [QueuedJob EXCEPT
                                                        !.status = "done",
                                                        !.attempt_count = 1]],
                          rollups |-> [x \in T |->
                                         [EmptySubjectRollup EXCEPT
                                             !.summary_1000 = <<"x">>,
                                             !.review_count = n,
                                             !.last_processed_review_id = n]]]
          /\ \E S \in SUBSET SubmitKeys :
                /\ rollups = [k \in S |->
                      LET ids == {id \in 1..n : KeyList[id] = k}
                      IN  IF ids = {} THEN EmptyRollup ELSE SummarizedRollup(ids)]
                /\ rollupOrder = FilterSeq(KeyList, S)
    /\ flags = {}
    /\ emb = [r \in Runners |-> EmbIdle]
    /\ runs = 0
    /\ rembs = << >>
    /\ rol = [r \in Runners |-> RolIdle]
    /\ sub = SubIdle
    /\ drv = DrvIdle
    /\ summarized = EmptyBag

\* submissions of both kinds and the requeue phase of a full rebuild, in any
\* interleaving, while no runner is at work
NextFrame ==
    \/ NextSubmit
    \/ DrvStart
    \/ DrvEnqueueAllEmbeddingJobs
    \/ DrvEnqueueAllCompanyEmbeddingJobs
    \/ DrvMarkAllSubjectsDirty
    \/ DrvMarkAllCompanyRollupsDirty

SpecFrame == InitFrame /\ [][NextFrame]_vars

\* ------------------------------------------------------------------ claims
\* the jobs an invocation past its claim step still has to handle
Pending(l) ==
    IF l.pc \in {"idle", "lock"} THEN {}
    ELSE IF l.pc \in {"flags", "delFlagged", "doneFlagged"} THEN PickedIds(l)
    ELSE IF l.pc \in {"bodies", "hashes"} THEN ActiveIds(l)
    ELSE l.toDoneSkip \cup l.toFailMissingBody \cup Range(l.need)

\* C1: two overlapping embedding-runner invocations never handle the same
\* job: past the claim step, the jobs one invocation still has to embed or
\* terminalize are disjoint from those of the other.
C1_NoJobHandledByBoth ==
    \A r1 \in Runners : \A r2 \in Runners \ {r1} :
        Pending(emb[r1]) \cap Pending(emb[r2]) = {}

SelectStep(r) == emb[r].pc = "idle" /\ runs' = runs + 1

StaleProcessing(id) ==
    /\ jobs[id].status = "processing"
    /\ jobs[id].locked_at # NIL
    /\ jobs[id].locked_at < StaleBefore

FreshProcessing(id) ==
    /\ jobs[id].status = "processing"
    /\ jobs[id].locked_at # NIL
    /\ ~(jobs[id].locked_at < StaleBefore)

\* C2: a job left `processing` with a lease older than the staleness
\* threshold is selected by the next select step (when the batch ceiling
\* leaves room), and one with a younger lease is not selected.
C2_StaleLeaseReclaimed ==
    [][\A r \in Runners : \A id \in DOMAIN jobs :
          SelectStep(r) =>
             /\ (StaleProcessing(id) /\ Len(emb'[r].picked) < MAX_JOBS_PER_RUN)
                   => id \in PickedIds(emb'[r])
             /\ FreshProcessing(id) => id \notin PickedIds(emb'[r])]_vars

\* an invocation that is past its claim step returns a response
ReturnAfterClaim(r) ==
    /\ emb[r].pc \notin {"idle", "lock"}
    /\ emb'[r].pc = "idle"
    /\ emb'[r].res \in {"ok", "error"}

\* C3: whenever an invocation returns after its claim step, on any return
\* path, every job it picked is `done` or `failed`.
C3_ReturnLeavesNoProcessing ==
    [][\A r \in Runners :
          ReturnAfterClaim(r) =>
             \A id \in PickedIds(emb[r]) : jobs'[id].status \in {"done", "failed"}]_vars

\* the non-flagged reviews of a key
NonFlagged(k) == {id \in DOMAIN reviews : reviews[id].key = k /\ id \notin flags}

CountOf(k, o) == Cardinality({id \in NonFlagged(k) : reviews[id].outcome = o})

\* the stored counts of a rollup are those of its current non-flagged reviews
CountsCurrent(k) ==
    /\ rollups[k].review_count = Cardinality(NonFlagged(k))
    /\ rollups[k].count_offer = CountOf(k, "offer")
    /\ rollups[k].count_rejected = CountOf(k, "rejected")
    /\ rollups[k].count_other = CountOf(k, "other")

NoneInFlight == sub.pc = "idle" /\ \A r \in Runners : rol[r].pc = "idle"

\* C4: under any interleaving of submissions with rollup-runner invocations,
\* once no runner and no submission is in flight, every rollup with
\* is_dirty = false stores the counts of the current non-flagged reviews of
\* its key.
C4_CleanRollupCountsCurrent ==
    NoneInFlight =>
        \A k \in DOMAIN rollups : ~rollups[k].is_dirty => CountsCurrent(k)

\* the run is between the summary write and the end of the embedding refresh
InEmbeddingRefresh(l) == l.pc \in {"embRow", "embed", "upsertNull", "upsertVec"}

\* C5: no state inside a run has is_dirty = false for the key being
\* processed while the rollup-embedding refresh of that key has not
\* completed.
C5_DirtyUntilRefreshDone ==
    \A r \in Runners :
        InEmbeddingRefresh(rol[r]) => rollups[Cur(rol[r]).key].is_dirty

\* the submission in flight has just answered { ok: true }
SubmissionSucceeded == sub.pc = "done" /\ sub.res = "ok"

\* C6: when a submission returns success for a review of key K, the
\* review's embedding job is queued (attempt_count 0, no lock) and the rollup
\* of exactly key K exists with is_dirty = true, for course and for company
\* reviews.
C6_SuccessQueuesJobAndDirtiesKey ==
    SubmissionSucceeded =>
        IF sub.kind = "course"
        THEN /\ sub.id \in DOMAIN course.jobs
             /\ course.jobs[sub.id] = QueuedJob
             /\ sub.key \in DOMAIN course.rollups
             /\ course.rollups[sub.key].is_dirty
        ELSE /\ sub.id \in DOMAIN jobs
             /\ jobs[sub.id] = QueuedJob
             /\ sub.key \in DOMAIN rollups
             /\ rollups[sub.key].is_dirty

\* the requeue phase of the driver is over and no runner has touched a
\* rollup yet
RequeueDone == drv.pc \in {"runEmbeddings", "runCompanyEmbeddings"}

\* C7: after the requeue phase every subject has a rollup with
\* is_dirty = true and every row of company_rollups has is_dirty = true.
C7_RequeueDirtiesEveryRollup ==
    RequeueDone =>
        /\ \A x \in Subjects :
              x \in DOMAIN course.rollups /\ course.rollups[x].is_dirty
        /\ \A k \in DOMAIN rollups : rollups[k].is_dirty

\* no embedding job is queued or failed and no rollup is dirty
Drained ==
    /\ \A id \in DOMAIN jobs : jobs[id].status \notin {"queued", "failed"}
    /\ \A id \in DOMAIN course.jobs :
          course.jobs[id].status \notin {"queued", "failed"}
    /\ \A k \in DOMAIN rollups : ~rollups[k].is_dirty
    /\ \A x \in DOMAIN course.rollups : ~course.rollups[x].is_dirty

DriverReturned == drv.pc = "done"

\* C8: for any finite dataset, when the driver returns no embedding job is
\* queued or failed and no rollup is dirty.
C8_RebuildDrainsAnyDataset == DriverReturned => Drained

\* the loops of the driver can reach every job and every rollup
WithinCeilings ==
    /\ Cardinality(DOMAIN reviews) <= MAX_EMBEDDING_LOOPS * MAX_JOBS_PER_RUN
    /\ Cardinality(DOMAIN course.reviews) <= MAX_EMBEDDING_LOOPS * MAX_JOBS_PER_RUN
    /\ Cardinality(DOMAIN rollups) <= MAX_ROLLUP_LOOPS * MAX_ROLLUPS_PER_RUN
    /\ Cardinality(Subjects) <= MAX_ROLLUP_LOOPS * MAX_ROLLUPS_PER_RUN

\* what the driver does achieve: it always returns, and when it answers ok
\* on a dataset its loop ceilings cover, nothing is left queued, failed or
\* dirty
RebuildDrainsWithinCeilings ==
    /\ <>DriverReturned
    /\ [](DriverReturned /\ drv.res = "ok" /\ WithinCeilings => Drained)

\* the keys of the run whose processing recorded an error
Failing(l) == {i \in 1..Len(l.perRollup) : l.perRollup[i].errors # << >>}

\* the run handled several keys and exactly one of them threw, at the
\* summarization call
OneSummarizeFailure(l) ==
    /\ l.pc = "respond"
    /\ Len(l.rollups) > 1
    /\ Cardinality(Failing(l)) = 1
    /\ \A i \in Failing(l) : l.perRollup[i].errors[1] = "summarize"

\* the reviews of a key that the stats scan reads
Scanned(k) ==
    LET mine == {id \in DOMAIN reviews : reviews[id].key = k}
    IN  {id \in mine :
            Cardinality({j \in mine : j < id}) < MAX_REVIEWS_PER_ROLLUP_FOR_STATS}

\* the stored counts are those of the non-flagged reviews the scan reads
StatsRecomputed(k) ==
    LET kept == Scanned(k) \ flags
        n(o) == Cardinality({id \in kept : reviews[id].outcome = o})
    IN  /\ rollups[k].review_count = Cardinality(kept)
        /\ rollups[k].count_offer = n("offer")
        /\ rollups[k].count_rejected = n("rejected")
        /\ rollups[k].count_other = n("other")

\* C9: when exactly one key of a run over several dirty keys throws at the
\* summarization step, at the end of the run every other key of the run is
\* is_dirty = false with recomputed stats, and the failing key is
\* is_dirty = true with recomputed stats and an error in its entry of the
\* run result.
C9_FailureStaysInItsKey ==
    \A r \in Runners :
        OneSummarizeFailure(rol[r]) =>
            LET l == rol[r]
            IN  \A i \in 1..Len(l.rollups) :
                   LET k == l.rollups[i].key
                   IN  /\ i <= Len(l.perRollup)
                       /\ l.perRollup[i].key = k
                       /\ StatsRecomputed(k)
                       /\ IF i \in Failing(l)
                          THEN /\ rollups[k].is_dirty
                               /\ l.perRollup[i].stats_updated
                               /\ ~l.perRollup[i].ok
                          ELSE ~rollups[k].is_dirty

\* a run of two keys ends: one threw at the summarization call, the other
\* was summarized and its embedding refreshed
C9_Witness ==
    \E r \in Runners :
        /\ OneSummarizeFailure(rol[r])
        /\ \E i \in 1..Len(rol[r].perRollup) :
              /\ rol[r].perRollup[i].ok
              /\ rol[r].perRollup[i].summary_updated
              /\ rollups[rol[r].perRollup[i].key].review_count > 0

\* C10: at the end of a rollup-runner pass, the RollupEmbedding of every key
\* of the pass that is is_dirty = false carries the hash of the normalized
\* current summary.
C10_CleanRollupEmbeddingHash ==
    \A r \in Runners :
        rol[r].pc = "respond" =>
            \A i \in 1..Len(rol[r].rollups) :
               LET k == rol[r].rollups[i].key
               IN  (~rollups[k].is_dirty /\ k \in DOMAIN rembs) =>
                      rembs[k].content_hash =
                         sha256Hex(normalizeSummaryForEmbedding(rollups[k].summary_1000))

\* the review ids of a key, oldest first
ReviewsOfKey(k) == SeqOfSet({id \in DOMAIN reviews : reviews[id].key = k})

\* the record one invocation writes from a snapshot of the first n reviews
\* of the key: the reset record, or the counts of the snapshot with the
\* cursor on its last review
WrittenFromSnapshot(k, n) ==
    LET ids == Take(ReviewsOfKey(k), n)
        c(o) == Cardinality({i \in 1..n : reviews[ids[i]].outcome = o})
    IN  IF n = 0
        THEN /\ rollups[k].review_count = 0
             /\ rollups[k].count_offer = 0
             /\ rollups[k].count_rejected = 0
             /\ rollups[k].count_other = 0
             /\ rollups[k].last_processed_review_id = NIL
             /\ rollups[k].summary_1000 = << >>
        ELSE /\ rollups[k].review_count = n
             /\ rollups[k].count_offer = c("offer")
             /\ rollups[k].count_rejected = c("rejected")
             /\ rollups[k].count_other = c("other")
             /\ rollups[k].last_processed_review_id = ids[n]

\* both invocations have worked through the key and are about to respond
BothRanKey(k) ==
    \A r \in Runners :
        /\ rol[r].pc = "respond"
        /\ \E i \in 1..Len(rol[r].rollups) : rol[r].rollups[i].key = k

\* C11: when two rollup-runner invocations have both processed the same
\* dirty key, under any interleaving of their steps and of submissions, the
\* record they leave (counts and summary cursor) is one that a single
\* invocation writes from one snapshot of the key's reviews.
C11_DoubleRunLeavesSingleRunRecord ==
    \A k \in DOMAIN rollups :
        BothRanKey(k) =>
            \E n \in 0..Len(ReviewsOfKey(k)) : WrittenFromSnapshot(k, n)


\* the entries of the run result for keys whose pass succeeded
Succeeded(l) == {i \in 1..Len(l.perRollup) : l.perRollup[i].ok}

SubCountsAddUp(k) ==
    rollups[k].count_offer + rollups[k].count_rejected + rollups[k].count_other
        = rollups[k].review_count

\* C12 as stated: after a successful pass over a key, review_count and the
\* outcome sub-counts are exactly those of all non-flagged reviews of the
\* key, and the sub-counts add up to review_count.
C12_CountsOfAllNonFlagged ==
    \A r \in Runners : \A i \in Succeeded(rol[r]) :
        CountsCurrent(rol[r].perRollup[i].key)
            /\ SubCountsAddUp(rol[r].perRollup[i].key)

\* C12 amended: after a successful pass over a key, review_count and the
\* outcome sub-counts are exactly those of the non-flagged reviews among the
\* oldest MAX_REVIEWS_PER_ROLLUP_FOR_STATS reviews of the key (the bounded
\* scan), and the sub-counts add up to review_count.
C12_CountsOfScannedNonFlagged ==
    \A r \in Runners : \A i \in Succeeded(rol[r]) :
        StatsRecomputed(rol[r].perRollup[i].key)
            /\ SubCountsAddUp(rol[r].perRollup[i].key)

\* a pass succeeded over a key that has a flagged review and several
\* non-flagged ones
C12_Witness ==
    \E r \in Runners : \E i \in Succeeded(rol[r]) :
        LET k == rol[r].perRollup[i].key
        IN  /\ \E id \in flags : reviews[id].key = k
            /\ rollups[k].review_count >= 2


\* R1..Rn: the non-flagged reviews the scan of a key reads, oldest first
Kept(k) == SeqOfSet(Scanned(k) \ flags)

\* R(i+1)..Rn for the cursor Ri
After(k, cursor) == SelectSeq(Kept(k), LAMBDA id : id > cursor)

\* the last n elements of a sequence
LastN(s, n) == IF Len(s) > n THEN SubSeq(s, Len(s) - n + 1, Len(s)) ELSE s

\* the cursor the run selected points at a review of R1..Rn that is not Rn
CursorBehind(l) ==
    /\ l.pc # "idle"
    /\ Cur(l).last_processed_review_id \in Range(Kept(Cur(l).key))
    /\ After(Cur(l).key, Cur(l).last_processed_review_id) # << >>

\* the cursor the run selected points at Rn: there is no new review
CursorAtEnd(l) ==
    /\ l.pc # "idle"
    /\ Cur(l).last_processed_review_id \in Range(Kept(Cur(l).key))
    /\ After(Cur(l).key, Cur(l).last_processed_review_id) = << >>

\* the summarization call of the key is being made or has been made
Summarizing(l) == l.pc \in {"summarize", "writeSummary"}

\* the cursor write of the key is done and nothing has thrown
CursorWritten(l) == InEmbeddingRefresh(l) /\ l.result.errors = << >>

\* the cursor is on Rn, and a run without new reviews called no
\* summarization and left the summary as it was
CursorAndSummaryRight(l) ==
    LET k == Cur(l).key
    IN  /\ (CursorBehind(l) /\ CursorWritten(l)) =>
              rollups[k].last_processed_review_id = Kept(k)[Len(Kept(k))]
        /\ CursorAtEnd(l) => ~Summarizing(l)
        /\ (CursorAtEnd(l) /\ CursorWritten(l)) =>
              /\ rollups[k].summary_1000 = Cur(l).summary_1000
              /\ rollups[k].last_processed_review_id = Kept(k)[Len(Kept(k))]

\* C13 as stated: with the cursor on Ri (i < n) of the non-flagged reviews
\* R1..Rn of the key, a run passes exactly R(i+1)..Rn to the summarization
\* call and sets the cursor to Rn; a following run with no new reviews
\* makes no summarization call and leaves the summary unchanged.
C13_PassesAllNewReviews ==
    \A r \in Runners :
        /\ (CursorBehind(rol[r]) /\ Summarizing(rol[r])) =>
              rol[r].newBodies =
                  After(Cur(rol[r]).key, Cur(rol[r]).last_processed_review_id)
        /\ CursorAndSummaryRight(rol[r])

\* C13 amended: the run passes the MAX_NEW_REVIEWS_FOR_SUMMARY most recent of
\* R(i+1)..Rn to the summarization call (all of them when they are no more
\* than that) and sets the cursor to Rn; a following run with no new
\* reviews makes no summarization call and leaves the summary unchanged.
C13_PassesNewestNewReviews ==
    \A r \in Runners :
        /\ (CursorBehind(rol[r]) /\ Summarizing(rol[r])) =>
              rol[r].newBodies =
                  LastN(After(Cur(rol[r]).key, Cur(rol[r]).last_processed_review_id),
                        MAX_NEW_REVIEWS_FOR_SUMMARY)
        /\ CursorAndSummaryRight(rol[r])

\* a run whose cursor was on an earlier review has summarized the new
\* reviews and moved the cursor
C13_Witness ==
    \E r \in Runners :
        /\ CursorBehind(rol[r])
        /\ CursorWritten(rol[r])
        /\ rol[r].result.summary_updated

\* a run whose cursor was on the newest review has confirmed the cursor
\* without a summarization call
C13_WitnessNoNew ==
    \E r \in Runners :
        /\ CursorAtEnd(rol[r])
        /\ CursorWritten(rol[r])
        /\ ~rol[r].result.summary_updated


\* C14: when a run has passed over a dirty key that has no non-flagged
\* review, the rollup has review_count 0, all sub-counts 0, an empty
\* summary, a null cursor and is_dirty = false.
C14_EmptyKeyIsReset ==
    \A r \in Runners : \A i \in Succeeded(rol[r]) :
        LET k == rol[r].perRollup[i].key
        IN  NonFlagged(k) = {} => rollups[k] = EmptyRollup

\* a run has reset a key whose reviews are all flagged
C14_Witness ==
    \E r \in Runners : \E i \in Succeeded(rol[r]) :
        LET k == rol[r].perRollup[i].key
        IN  /\ NonFlagged(k) = {}
            /\ \E id \in flags : reviews[id].key = k
            /\ rollups[k] = EmptyRollup


\* the review has a ReviewEmbedding whose content_hash is the digest of its
\* current body
Stored(id) ==
    /\ id \in DOMAIN reviews
    /\ id \in DOMAIN embs
    /\ embs[id] = sha256Hex(reviews[id].body)

\* the provider is being called, or has just been called, with the batch
CallingProvider(l) == l.pc \in {"embed", "upsertEmb"}

\* the skip write of the run succeeds
SkipWriteStep(r) ==
    /\ emb[r].pc = "markSkip"
    /\ emb'[r].pc # "markSkip"
    /\ emb'[r].res \notin {"error", "crashed"}

\* C15: embedding is idempotent by content hash: no review whose stored
\* content_hash is the SHA-256 of its current body is ever in a batch sent
\* to the embedding provider (so a run over jobs that were all embedded
\* makes no provider call); every such picked job is put in the skip set,
\* and the skip write leaves it `done`.
C15_UnchangedReviewSkipsProvider ==
    /\ [](\A r \in Runners :
            /\ CallingProvider(emb[r]) =>
                  \A id \in Batch(emb[r]) : ~Stored(id)
            /\ emb[r].pc = "markSkip" =>
                  \A id \in ActiveIds(emb[r]) :
                      Stored(id) => id \in emb[r].toDoneSkip)
    /\ [][\A r \in Runners :
             SkipWriteStep(r) =>
                \A id \in emb[r].toDoneSkip :
                    /\ jobs'[id].status = "done"
                    /\ jobs'[id].last_error = NULL]_vars

\* a run has skipped a job whose review was already embedded, without a
\* provider call for it, and goes on to embed another review
C15_Witness ==
    \E r \in Runners :
        /\ emb[r].pc = "embed"
        /\ \E id \in ActiveIds(emb[r]) \ Range(emb[r].need) :
              /\ Stored(id)
              /\ jobs[id].status = "done"
              /\ jobs[id].attempt_count = AttemptOf(emb[r], id)


\* the write that terminalizes the flagged jobs of the run succeeds
FlaggedWriteStep(r) ==
    /\ emb[r].pc = "doneFlagged"
    /\ emb'[r].pc # "doneFlagged"
    /\ emb'[r].res \notin {"error", "crashed"}

\* C16: a picked job whose review carries an active moderation flag is left,
\* by the run, with no ReviewEmbedding row for the review, status `done` and
\* last_error = 'ai_flagged', and the review is in no batch sent to the
\* embedding provider.
C16_FlaggedJobDoneWithoutEmbedding ==
    /\ [](\A r \in Runners :
            CallingProvider(emb[r]) => Batch(emb[r]) \cap flags = {})
    /\ [][\A r \in Runners :
             FlaggedWriteStep(r) =>
                \A id \in PickedIds(emb[r]) \cap flags :
                    /\ id \notin DOMAIN embs'
                    /\ jobs'[id].status = "done"
                    /\ jobs'[id].last_error = "ai_flagged"]_vars

\* a run has terminalized the job of a flagged review and goes on to embed
\* another review
C16_Witness ==
    \E r \in Runners :
        /\ emb[r].pc = "embed"
        /\ \E id \in PickedIds(emb[r]) \cap flags :
              /\ id \notin DOMAIN embs
              /\ jobs[id].status = "done"
              /\ jobs[id].last_error = "ai_flagged"


\* the catch block of a batch whose provider call failed writes its jobs
ProviderFailureStep(r) ==
    /\ emb[r].pc = "jobsFail"
    /\ emb[r].msg = "provider error"
    /\ emb'[r].pc # "jobsFail"
    /\ emb'[r].res \notin {"error", "crashed"}

\* the job write of a batch that was embedded succeeds
BatchDoneStep(r) ==
    /\ emb[r].pc = "jobsDone"
    /\ emb'[r].pc \notin {"jobsDone", "jobsFail"}
    /\ emb'[r].res \notin {"error", "crashed"}

Stepping(r) == emb'[r] # emb[r]

\* the status changes a runner may write to a job row
AllowedWrite(r, old, new) ==
    \/ old.status \in {"queued", "failed"} /\ new.status = "processing"
    \/ /\ old.status = "processing"
       /\ old.locked_by = r
       /\ new.status \in {"done", "failed"}

\* C18: every change an embedding runner writes to a job row is one of
\* queued -> processing, failed -> processing, processing -> done and
\* processing -> failed, the last two only on a job that is `processing`
\* under the writer's own claim; a job that is `done` is never changed.
C18_RunnerWritesOnlyItsOwnClaims ==
    [][\A r \in Runners :
          Stepping(r) =>
             \A id \in DOMAIN jobs :
                 jobs'[id] # jobs[id] => AllowedWrite(r, jobs[id], jobs'[id])]_vars


\* C19: under any interleaving of rollup-runner invocations and
\* submissions, last_processed_review_id of a rollup never moves to a review
\* created earlier than the one it pointed to; it goes back only by the
\* reset to NULL, and only when the key has no non-flagged review.
C19_CursorNeverMovesBack ==
    [][\A k \in DOMAIN rollups :
          LET old == rollups[k].last_processed_review_id
              new == rollups'[k].last_processed_review_id
          IN  old # NIL =>
                 IF new = NIL THEN NonFlagged(k) = {} ELSE new >= old]_vars


\* the full-rebuild driver takes the step
DriverStep == drv' # drv

\* C20: a full rebuild that runs while an embedding runner holds a job in
\* `processing` leaves that job alone: no step of the requeue phase turns a
\* `processing` job into one the pickup query selects.
C20_RequeueSparesProcessingJobs ==
    [][DriverStep =>
          \A id \in DOMAIN jobs :
              jobs[id].status = "processing" =>
                  jobs'[id].status \notin {"queued", "failed"}]_vars


\* the keys the next pickup query returns
NextPickup == Range(SelectDirty)

\* C21: a key whose processing failed in one invocation is selected by the
\* very next invocation, however many other dirty keys are waiting: when
\* the invocation has made its last write, every key that failed in it is
\* among the keys the pickup query returns.
C21_FailedKeyPickedNext ==
    \A r \in Runners :
        rol[r].pc = "respond" =>
            \A i \in Failing(rol[r]) : rol[r].perRollup[i].key \in NextPickup


\* the submission in flight has just answered with an error, after its
\* review row was inserted
SubmissionFailed == sub.pc = "done" /\ sub.res = "error"

\* C22: when a submission fails at the job-enqueue step or the rollup-dirty
\* step, the review row it inserted is gone when the error response is
\* sent, for course and for company reviews.
C22_FailedSubmissionLeavesNoReview ==
    SubmissionFailed =>
        IF sub.kind = "course"
        THEN sub.id \notin DOMAIN course.reviews
        ELSE sub.id \notin DOMAIN reviews



\* ---------------------------------------------------------------- C23
\* a rollup record without its dirty flag
FrameOf(row) == [row EXCEPT !.is_dirty = FALSE]

\* C23: a step of a review submission or of the requeue phase of a full
\* rebuild leaves every field but is_dirty of every already existing rollup
\* record, company or subject, as it was: the counts, the summary and the
\* cursor are unchanged and no record disappears
C23_DirtyMarkKeepsRecord ==
    [][/\ \A k \in DOMAIN rollups :
             /\ k \in DOMAIN rollups'
             /\ FrameOf(rollups'[k]) = FrameOf(rollups[k])
       /\ \A x \in DOMAIN course.rollups :
             /\ x \in DOMAIN course'.rollups
             /\ FrameOf(course'.rollups[x]) = FrameOf(course.rollups[x])]_vars

\* the requeue phase is over and a summarized record of each kind is dirty
C23_Witness ==
    /\ drv.pc = "runEmbeddings"
    /\ \E k \in DOMAIN rollups :
          rollups[k].is_dirty /\ rollups[k].review_count > 0
    /\ \E x \in DOMAIN course.rollups :
          course.rollups[x].is_dirty /\ course.rollups[x].review_count > 0
    /\ sub.pc = "done" /\ sub.res = "ok"


\* ---------------------------------------------------------------- C24
\* the driver is in the loop that calls the named runner
InLoop(pc) == drv.pc = pc

\* the loop is left before its ceiling
LeftEarly(pc, ceiling) ==
    InLoop(pc) /\ drv'.pc # pc /\ drv.loops + 1 < ceiling

\* the driver starts one run of a runner
Invokes ==
    \/ InLoop("runEmbeddings") /\ drv' # drv
    \/ InLoop("runRollups") /\ drv' # drv
    \/ InLoop("runCompanyEmbeddings") /\ emb["r1"].pc = "idle"
          /\ emb["r1"].res = "none" /\ emb' # emb
    \/ InLoop("runCompanyRollups") /\ rol["r1"].pc = "idle"
          /\ rol["r1"].res = "none" /\ rol' # rol

CeilingOf(pc) ==
    IF pc \in {"runEmbeddings", "runCompanyEmbeddings"}
    THEN MAX_EMBEDDING_LOOPS ELSE MAX_ROLLUP_LOOPS

\* C24: the driver returns in every behaviour, although jobs may fail on
\* every attempt, keys may stay dirty and runs may answer with an error; it
\* starts a run of a runner only while fewer runs than the loop ceiling were
\* made in the loop, and it leaves a loop before the ceiling only when the
\* run reported zero picked jobs or zero dirty keys
C24_LoopsBoundedAndDriverReturns ==
    /\ <>DriverReturned
    /\ [][/\ Invokes => drv.loops < CeilingOf(drv.pc)
          /\ LeftEarly("runEmbeddings", MAX_EMBEDDING_LOOPS) =>
                CourseEmbeddingRun(course.jobs).picked = 0
          /\ LeftEarly("runRollups", MAX_ROLLUP_LOOPS) =>
                CourseRollupRun(course.rollups).subjects = 0
          /\ LeftEarly("runCompanyEmbeddings", MAX_EMBEDDING_LOOPS) =>
                emb["r1"].res = "empty"
          /\ LeftEarly("runCompanyRollups", MAX_ROLLUP_LOOPS) =>
                rol["r1"].res = "empty"]_vars

\* the driver answered ok after a loop ran to its ceiling and left a failed
\* job or a dirty key behind
C24_Witness ==
    /\ DriverReturned /\ drv.res = "ok"
    /\ \/ \E id \in DOMAIN jobs : jobs[id].status = "failed"
       \/ \E k \in DOMAIN rollups :
             rollups[k].is_dirty /\ rollups[k].review_count > 0


\* ---------------------------------------------------------------- C25
\* the cursor the run selected is null or is not among the reviews rs, and
\* there are such reviews
CursorLost(l, rs) ==
    /\ l.pc # "idle"
    /\ rs # << >>
    /\ Cur(l).last_processed_review_id \notin Range(rs)

\* the run passes the most recent of rs to the summarization call, writes a
\* summary and sets the cursor to the last of rs
TreatsAllAsNew(l, rs) ==
    /\ Summarizing(l) => l.newBodies = LastN(rs, MAX_NEW_REVIEWS_FOR_SUMMARY)
    /\ CursorWritten(l) =>
          /\ l.result.summary_updated
          /\ rollups[Cur(l).key].last_processed_review_id = rs[Len(rs)]

\* C25 as stated: when the cursor of a rollup is null or is not the id of a
\* current non-flagged review of the key, the run treats all current
\* non-flagged reviews of the key, capped to the most recent
\* MAX_NEW_REVIEWS_FOR_SUMMARY, as new, and after the run the cursor is the
\* id of the latest non-flagged review of the key.
C25_LostCursorRestartsFromAllReviews ==
    \A r \in Runners :
        LET rs == SeqOfSet(NonFlagged(Cur(rol[r]).key))
        IN  rol[r].pc # "idle" /\ CursorLost(rol[r], rs) =>
                TreatsAllAsNew(rol[r], rs)

\* C25 amended: when the cursor of a rollup is null or is not the id of a
\* non-flagged review among the oldest MAX_REVIEWS_PER_ROLLUP_FOR_STATS
\* reviews of the key (the bounded scan), the run treats all non-flagged
\* reviews of the scan, capped to the most recent
\* MAX_NEW_REVIEWS_FOR_SUMMARY, as new, and after the run the cursor is the
\* id of the latest non-flagged review of the scan.
C25_LostCursorRestartsFromScannedReviews ==
    \A r \in Runners :
        rol[r].pc # "idle" /\ CursorLost(rol[r], Kept(Cur(rol[r]).key)) =>
            TreatsAllAsNew(rol[r], Kept(Cur(rol[r]).key))

\* a run found its cursor on a review that has been flagged since, and has
\* written a new summary and a new cursor over several remaining reviews
C25_Witness ==
    \E r \in Runners :
        /\ rol[r].pc # "idle"
        /\ CursorLost(rol[r], Kept(Cur(rol[r]).key))
        /\ Cur(rol[r]).last_processed_review_id \in flags
        /\ Len(Kept(Cur(rol[r]).key)) >= 2
        /\ CursorWritten(rol[r])


\* ---------------------------------------------------------------- C26
\* the database after up to two company submissions under one key: either
\* no run has passed over the key yet, or the last run summarized every
\* review, wrote the cursor and then failed in the embedding refresh; the
\* rollup is dirty
InitOnce ==
    /\ now = 0
    /\ \E n \in 0..2, fresh \in BOOLEAN :
          /\ reviews = [id \in 1..n |->
                          [key |-> PairKey, outcome |-> OutcomeOf(id),
                           body |-> BodyOf(id)]]
          /\ jobs = [id \in 1..n |-> QueuedJob]
          /\ jobOrder = SeqOfSet(1..n)
          /\ nextId = n + 1
          /\ IF fresh \/ n = 0
             THEN /\ n <= MAX_NEW_REVIEWS_FOR_SUMMARY
                  /\ rollups = [k \in {PairKey} |->
                                  [EmptyRollup EXCEPT !.is_dirty = TRUE]]
                  /\ summarized = EmptyBag
             ELSE /\ rollups = [k \in {PairKey} |->
                                  [SummarizedRollup(1..n) EXCEPT !.is_dirty = TRUE]]
                  /\ summarized = SetToBag(1..n)
    /\ flags = {}
    /\ embs = << >>
    /\ emb = [r \in Runners |-> EmbIdle]
    /\ runs = 0
    /\ rollupOrder = <<PairKey>>
    /\ rembs = << >>
    /\ rol = [r \in Runners |-> RolIdle]
    /\ sub = SubIdle
    /\ course = EmptyCourse
    /\ drv = DrvIdle

\* the non-flagged reviews of a key that no summarization call has received
Unsummarized(k) == {id \in NonFlagged(k) : CopiesIn(id, summarized) = 0}

\* a company review arrives while fewer than MAX_NEW_REVIEWS_FOR_SUMMARY
\* reviews of its key wait for a summary
SubCompanyInsertWithinCap ==
    /\ \A k \in DOMAIN rollups :
          Cardinality(Unsummarized(k)) < MAX_NEW_REVIEWS_FOR_SUMMARY
    /\ SubCompanyInsert(DOMAIN rollups)

\* a call of the embedding refresh fails, after the summary write
RolThrowInRefresh(r) ==
    /\ rol[r].pc \in {"embRow", "embed", "upsertNull", "upsertVec"}
    /\ RolThrow(r)

\* one rollup runner, invoked again and again; only its embedding refresh
\* may fail; reviews arrive within the cap and moderation flags reviews
NextOnce ==
    \/ RolStep("r1")
    \/ RolThrowInRefresh("r1")
    \/ RolKeepDirty("r1")
    \/ SubCompanyInsertWithinCap
    \/ SubCompanyUpsertJob
    \/ SubCompanyFindRollup
    \/ SubCompanyUpdateRollup
    \/ SubRespond
    \/ FlagReview

SpecOnce == InitOnce /\ [][NextOnce]_vars

\* no non-flagged review of the key was passed to the summarization call
\* twice, and each one up to the stored cursor was passed once
PassedOnceUpToCursor(k) ==
    \A id \in NonFlagged(k) :
        /\ CopiesIn(id, summarized) <= 1
        /\ (rollups[k].last_processed_review_id # NIL
               /\ id <= rollups[k].last_processed_review_id) =>
              CopiesIn(id, summarized) = 1

\* no review was flagged after it was passed to the summarization call
NoSummarizedReviewFlagged == BagToSet(summarized) \cap flags = {}

TerminalWriteOf(r) ==
    IF emb[r].pc = "markMiss" THEN emb[r].toFailMissingBody
    ELSE IF emb[r].pc \in {"jobsDone", "jobsFail"} THEN Batch(emb[r])
    ELSE {}

\* C27: under any interleaving of runner invocations, and with no
\* submission and no full rebuild taking place, attempt_count of a job
\* never decreases, and each terminal write after an embedding attempt or a
\* missing-body failure stores the attempt_count the job has at the write,
\* plus one.
C27_AttemptCountOnlyGrows ==
    [][/\ \A id \in DOMAIN jobs :
             jobs'[id].attempt_count >= jobs[id].attempt_count
       /\ \A r \in Runners :
             Stepping(r) /\ jobs' # jobs =>
                \A id \in TerminalWriteOf(r) :
                    jobs'[id].attempt_count = jobs[id].attempt_count + 1]_vars


\* ---------------------------------------------------------------- C28
\* a review row is hard-deleted while no runner is in flight
DeleteReviewBetweenRuns ==
    /\ \A r \in Runners : emb[r].pc = "idle" /\ rol[r].pc = "idle"
    /\ DeleteReview

\* every writer of the job table at work: an embedding runner with failing
\* batches, company submissions, the requeue phase of a full rebuild, and
\* moderation
NextLease ==
    \/ DrvStart
    \/ DrvEnqueueAllEmbeddingJobs
    \/ DrvEnqueueAllCompanyEmbeddingJobs
    \/ EmbStep("r2")
    \/ FlagReviewBetweenRuns
    \/ DeleteReviewBetweenRuns
    \/ EmbBatchThrow("r2")
    \/ SubCompanyInsert({PairKey})
    \/ SubCompanyUpsertJob
    \/ SubCompanyFindRollup
    \/ SubCompanyInsertRollup
    \/ SubRespond

\* the requeued databases that leave room for MaxLeaseSubmissions more
\* reviews exactly
InitLease == InitRequeued /\ Len(reviews) + MaxLeaseSubmissions = MaxReviews

SpecLease == InitLease /\ [][NextLease]_vars

\* C28: in every reachable state a job carries a lease timestamp only
\* while its status is `processing`; a queued, done or failed job has
\* locked_at = null.
C28_LeaseOnlyWhileProcessing ==
    \A id \in DOMAIN jobs :
        jobs[id].locked_at # NIL => jobs[id].status = "processing"

\* the runner has failed one job and finished another, both claimed
\* before, while a third job is queued
C28_Witness ==
    \E a, b, c \in DOMAIN jobs :
        /\ jobs[a].status = "failed" /\ jobs[a].locked_by = "r2"
        /\ jobs[b].status = "done" /\ jobs[b].locked_by = "r2"
        /\ jobs[c].status = "queued"
        /\ drv.pc # "idle"


\* ---------------------------------------------------------------- C29
\* C29: whenever a job is `done` with last_error = null and its review
\* exists, a ReviewEmbedding row exists for the review whose content_hash
\* is the SHA-256 digest of the review's body.
C29_DoneJobHasCurrentEmbedding ==
    \A id \in DOMAIN jobs \cap DOMAIN reviews :
        (jobs[id].status = "done" /\ jobs[id].last_error = NULL) => Stored(id)


\* ---------------------------------------------------------------- C30
\* the key has more reviews than the scan reads
OverBound(k) ==
    Cardinality({id \in DOMAIN reviews : reviews[id].key = k})
        > MAX_REVIEWS_PER_ROLLUP_FOR_STATS

\* the reviews of the key the scan does not read
Beyond(k) == {id \in DOMAIN reviews : reviews[id].key = k} \ Scanned(k)

\* the newest review the scan reads
LastScanned(k) == CHOOSE id \in Scanned(k) : \A j \in Scanned(k) : j <= id

\* the pass has written the counts of the key
CountsWritten(l) ==
    l.pc \in {"bodies", "summarize", "writeSummary", "clear"}
        \/ InEmbeddingRefresh(l)

\* review_count stays within the bound, and for a key with more reviews
\* than the bound the reviews beyond it are neither counted nor passed to
\* the summarization call
CountsAndSummaryWithinBound ==
    /\ \A k \in DOMAIN rollups :
          /\ rollups[k].review_count <= MAX_REVIEWS_PER_ROLLUP_FOR_STATS
          /\ BagToSet(summarized) \cap Beyond(k) = {}
    /\ \A r \in Runners :
          (rol[r].pc # "idle" /\ OverBound(Cur(rol[r]).key)) =>
              /\ Range(rol[r].newBodies) \cap Beyond(Cur(rol[r]).key) = {}
              /\ CountsWritten(rol[r]) =>
                    rollups[Cur(rol[r]).key].review_count =
                        Cardinality(Scanned(Cur(rol[r]).key) \ flags)

\* C30 as stated: a pass counts and summarizes only the oldest
\* MAX_REVIEWS_PER_ROLLUP_FOR_STATS reviews of a key; review_count never
\* exceeds the bound; for a key with more reviews the reviews beyond the
\* bound are neither counted nor passed to summarization, and the cursor
\* advances to the last review inside the bound.
C30_CursorAtLastReviewInBound ==
    /\ CountsAndSummaryWithinBound
    /\ \A r \in Runners :
          (rol[r].pc # "idle" /\ OverBound(Cur(rol[r]).key)
                /\ CursorWritten(rol[r])) =>
              rollups[Cur(rol[r]).key].last_processed_review_id =
                  LastScanned(Cur(rol[r]).key)

\* C30 amended: the same, with the cursor advancing to the last non-flagged
\* review inside the bound.
C30_CursorAtLastKeptReviewInBound ==
    /\ CountsAndSummaryWithinBound
    /\ \A r \in Runners :
          (rol[r].pc # "idle" /\ OverBound(Cur(rol[r]).key)
                /\ CursorWritten(rol[r])) =>
              rollups[Cur(rol[r]).key].last_processed_review_id =
                  Kept(Cur(rol[r]).key)[Len(Kept(Cur(rol[r]).key))]

\* a pass over a key with more reviews than the bound has written a summary
\* and the cursor while a non-flagged review beyond the bound was left out
C30_Witness ==
    \E r \in Runners :
        /\ rol[r].pc # "idle"
        /\ OverBound(Cur(rol[r]).key)
        /\ CursorWritten(rol[r])
        /\ rol[r].result.summary_updated
        /\ rollups[Cur(rol[r]).key].review_count = MAX_REVIEWS_PER_ROLLUP_FOR_STATS
        /\ Beyond(Cur(rol[r]).key) \ flags # {}

=============================================================================
